---------------------------- MODULE Spec2Model ----------------------------
(***************************************************************************)
(* Sales Count Report: the aggregation engine of src/utils.py              *)
(* (calculate_interval_counts, generate_report_data, save_report_data,     *)
(* get_report_data, convert_to_30min_intervals) and the report assembly    *)
(* and rendering of src/main.py.                                           *)
(*                                                                         *)
(* Representation.                                                         *)
(*  - Text (Service, Interval) is a sequence of character codes, so that   *)
(*    formatting, substring tests and string sorting are computed as       *)
(*    Python computes them.                                                *)
(*  - A line frame (items_df, modifiers_df) is a bag of line records: the   *)
(*    code only filters and sums the rows of these frames.                 *)
(*  - A report frame is a sequence of rows.                                *)
(*  - Qty is a float in the code.  It is held here as an integer number of *)
(*    1/QtyScale units (QtyScale = 2: halves), so 1 is 0.5 and 4 is 2.0.   *)
(*  - A timestamp is (date, hour, minute); date is a day number.           *)
(***************************************************************************)
EXTENDS Integers, Sequences, FiniteSets, Bags, TLC

VARIABLES
    new_items_df,       \* the item lines load_data returned
    new_modifiers_df,   \* the modifier lines load_data returned
    pc,                 \* "loaded", "generated", "saved" or "viewed"
    gen_type,           \* interval_type of the generate_report_data call
    gen_df,             \* what generate_report_data returned
    db,                 \* the rows of table new_sales_data
    selected_location,  \* st.session_state.selected_location
    selected_date,      \* the date of the date filter
    view_type,          \* selected_interval of the displayed report
    fetched_df,         \* what get_report_data returned
    display_df,         \* report_df with totals, sorted
    table_rows,         \* the rows of the HTML table, top to bottom
    conv_df,            \* the frame given to convert_to_30min_intervals
    conv_result_df,     \* what convert_to_30min_intervals returned
    saves,              \* the number of save_report_data calls made
    save_call,          \* the arguments of the latest save_report_data call
    db_before,          \* the rows of new_sales_data before that call
    tx,                 \* the transaction of each connection that is saving
    items_file,         \* the rows of the uploaded Items CSV
    modifiers_file,     \* the rows of the uploaded Modifiers CSV
    response_data,      \* the records of the response of a sales API
    orders_data,        \* the orders of the response of the Toast orders API
    attempt,            \* get_db_connection: the attempts made so far
    retry_delay,        \* get_db_connection: the seconds of the next wait
    conn,               \* get_db_connection: the connection it returned
    slept,              \* get_db_connection: the waits so far, in seconds
    opened,             \* get_db_connection: what each attempt opened
    items_df,           \* st.session_state.items_df
    modifiers_df,       \* st.session_state.modifiers_df
    runs,               \* the runs of the script in the session so far
    uploads             \* the file pairs put in the uploader so far

\* the values of a run of main.py other than pc and db
runVars == <<new_items_df, new_modifiers_df, gen_type, gen_df, selected_location,
             selected_date, view_type, fetched_df, display_df, table_rows>>

\* the argument and the result of a call of convert_to_30min_intervals
convertVars == <<conv_df, conv_result_df>>

\* the calls of save_report_data
storeVars == <<saves, save_call, db_before>>

\* what is ingested: the uploaded files, the API responses
ingestVars == <<items_file, modifiers_file, response_data, orders_data>>

\* a call of get_db_connection
retryVars == <<attempt, retry_delay, conn, slept, opened>>

\* the session state and the counters of the session
sessionVars == <<items_df, modifiers_df, runs, uploads>>

vars == <<pc, db, runVars, convertVars, storeVars, tx, ingestVars, retryVars, sessionVars>>

-----------------------------------------------------------------------------
(* Bounds of the model *)

\* Largest number of lines (item lines plus modifier lines) in the input.
MaxLines == 3

\* Largest count in a column of a row given to convert_to_30min_intervals.
MaxCount == 3

\* Largest number of save_report_data calls in a row.
MaxSaves == 3

-----------------------------------------------------------------------------
(* Text *)

Lunch == <<76, 117, 110, 99, 104>>                                \* 'Lunch'
Dinner == <<68, 105, 110, 110, 101, 114>>                         \* 'Dinner'
TotalWord == <<84, 111, 116, 97, 108>>                            \* 'Total'
GrandTotal == <<71, 114, 97, 110, 100, 32, 84, 111, 116, 97, 108>> \* 'Grand Total'
EmptyStr == << >>                                                 \* ''

\* f'{service} Total'
ServiceTotalName(service) == service \o <<32>> \o TotalWord

\* f"{n:02d}" for 0 <= n <= 99
Fmt02d(n) == <<48 + (n \div 10), 48 + (n % 10)>>

\* f"{hour:02d}:00"
HourLabel(hour) == Fmt02d(hour) \o <<58, 48, 48>>

\* [variant: the half-hour rows carry the label of their hour]
HalfHourLabelOfHour(hour, minute) == HourLabel(hour)

\* f"{hour:02d}:{minute:02d}"
HalfHourLabel(hour, minute) == Fmt02d(hour) \o <<58>> \o Fmt02d(minute)

\* Python's < on str, by code point
StrLT(a, b) ==
    \E i \in 1..Len(b) :
        /\ \A j \in 1..(i - 1) : j <= Len(a) /\ a[j] = b[j]
        /\ (i > Len(a) \/ a[i] < b[i])

\* str.lower() of one character
LowerChar(c) == IF c >= 65 /\ c <= 90 THEN c + 32 ELSE c

\* sub in s, ignoring case (str.contains(sub, case=False))
ContainsNoCase(s, sub) ==
    \E k \in 0..(Len(s) - Len(sub)) :
        \A j \in 1..Len(sub) : LowerChar(s[k + j]) = LowerChar(sub[j])

\* sub in s (the Python operator `in` on str)
Contains(s, sub) ==
    \E k \in 0..(Len(s) - Len(sub)) :
        \A j \in 1..Len(sub) : s[k + j] = sub[j]

-----------------------------------------------------------------------------
(* Columns and the PLU table *)

Categories == <<"1/2 Chix", "1/2 Ribs", "Full Ribs", "6oz Mod", "8oz Mod",
                "Corn", "Grits", "Pots">>

CategorySet == {Categories[i] : i \in 1..Len(Categories)}

numeric_cols == Categories \o <<"Total">>

NumericSet == CategorySet \cup {"Total"}

plu_mapping ==
    [c \in CategorySet |->
        CASE c = "1/2 Chix"  -> {81831, 81990, 81991, 3074, 3001, 3009, 81828, 82316, 81783}
          [] c = "1/2 Ribs"  -> {82151, 82149, 82147, 3033, 3034, 3032, 81912, 3009, 2007,
                                 82152, 82150, 82148}
          [] c = "Full Ribs" -> {2273, 2276, 2280, 81831, 81830}
          [] c = "6oz Mod"   -> {3316, 3418, 81785}
          [] c = "8oz Mod"   -> {81829, 2114}
          [] c = "Corn"      -> {2307, 3082, 3648, 2303}
          [] c = "Grits"     -> {2308, 3086, 3618, 2306}
          [] c = "Pots"      -> {2310, 3081, 3622, 2309}]

\* Qty units per 1.0
QtyScale == 2

\* the PLU of a line without a code: pd.to_numeric(..., errors='coerce') gives
\* NaN, which is in no list
NaN == -1

\* int(v) of a non-negative float v held in 1/QtyScale units
PyInt(v) == v \div QtyScale

-----------------------------------------------------------------------------
(* Line frames *)

\* df.empty
IsEmpty(df) == DOMAIN df = {}

\* df[mask], rows being the rows of df the mask keeps
Rows(df, rows) == [l \in rows |-> df[l]]

RECURSIVE SumOver(_, _)
SumOver(df, rows) ==
    IF rows = {} THEN 0
    ELSE LET l == CHOOSE x \in rows : TRUE
         IN  l.Qty * df[l] + SumOver(df, rows \ {l})

\* [variant: the Qty of every row, whatever its PLU]
QtySumAll(df, plus) == SumOver(df, DOMAIN df)

\* df[df['PLU'].isin(plus)]['Qty'].sum()
QtySumIsin(df, plus) == SumOver(df, {l \in DOMAIN df : l.PLU \in plus})


-----------------------------------------------------------------------------
(* Report frames *)

RECURSIVE SumCols(_, _)
\* sum of row[col] over the columns cols (a sequence of column names)
SumCols(n, cols) ==
    IF cols = << >> THEN 0 ELSE n[Head(cols)] + SumCols(n, Tail(cols))

\* a[col] < b[col] for a sort column
CellLT(a, b, col) ==
    IF col = "_sort_order" THEN a.sort_order < b.sort_order
    ELSE IF col = "Service" THEN StrLT(a.Service, b.Service)
    ELSE StrLT(a.Interval, b.Interval)

RECURSIVE RowLT(_, _, _)
\* row a sorts before row b by the columns `by`, ascending
RowLT(a, b, by) ==
    IF by = << >> THEN FALSE
    ELSE IF CellLT(a, b, Head(by)) THEN TRUE
    ELSE IF CellLT(b, a, Head(by)) THEN FALSE
    ELSE RowLT(a, b, Tail(by))

\* one step of a stable sort: r goes behind every row that is not above it
InsertSorted(sorted, r, by) ==
    LET k == Cardinality({i \in 1..Len(sorted) : ~RowLT(r, sorted[i], by)})
    IN  SubSeq(sorted, 1, k) \o <<r>> \o SubSeq(sorted, k + 1, Len(sorted))

RECURSIVE SortInto(_, _, _)
SortInto(done, rows, by) ==
    IF rows = << >> THEN done
    ELSE SortInto(InsertSorted(done, Head(rows), by), Tail(rows), by)

\* DataFrame.sort_values(by): ascending, rows with equal keys keep their order
sort_values(rows, by) == SortInto(<< >>, rows, by)

RECURSIVE SortedSeq(_)
\* sorted(S) of a set of numbers
SortedSeq(S) ==
    IF S = {} THEN << >>
    ELSE LET m == CHOOSE x \in S : \A y \in S : x <= y
         IN  <<m>> \o SortedSeq(S \ {m})

RECURSIVE Flatten(_)
\* concatenation of a sequence of sequences
Flatten(ss) == IF ss = << >> THEN << >> ELSE Head(ss) \o Flatten(Tail(ss))

-----------------------------------------------------------------------------
(* utils.calculate_interval_counts *)

\* Both frames carry their numeric PLU column (load_data sets it; for the
\* modifiers it is 'Modifier PLU').  pd.to_numeric(errors='coerce') does not
\* raise on a column, so the string comparisons of the except branches are
\* never taken.
calculate_interval_counts(interval_items, interval_mods) ==
    LET counts == [c \in CategorySet |->
                     (IF ~IsEmpty(interval_items)
                        THEN QtySumIsin(interval_items, plu_mapping[c]) ELSE 0)
                   + (IF ~IsEmpty(interval_mods)
                        THEN QtySumIsin(interval_mods, plu_mapping[c]) ELSE 0)]
        total == SumCols(counts, Categories)
    IN  [k \in NumericSet |-> PyInt(IF k = "Total" THEN total ELSE counts[k])]

-----------------------------------------------------------------------------
(* utils.generate_report_data *)

Services == <<Lunch, Dinner>>

start_hour(service) == IF service = Lunch THEN 6 ELSE 16

end_hour(service) == IF service = Lunch THEN 16 ELSE 24

\* a timestamp in minutes
Stamp(date, hour, minute) == (date * 24 + hour) * 60 + minute

\* [variant: a row for every hour, also when all its counts are zero]
HourRowsUnfiltered(service_items, service_mods, service, hour) ==
    LET interval_items == Rows(service_items,
                               {l \in DOMAIN service_items : l.hour = hour})
        interval_mods == Rows(service_mods,
                              {l \in DOMAIN service_mods : l.hour = hour})
        counts == calculate_interval_counts(interval_items, interval_mods)
    IN  <<[Service |-> service, Interval |-> HourLabel(hour), n |-> counts]>>

\* the rows appended for one hour of a service, '1 Hour'
HourRows(service_items, service_mods, service, hour) ==
    LET interval_items == Rows(service_items,
                               {l \in DOMAIN service_items : l.hour = hour})
        interval_mods == Rows(service_mods,
                              {l \in DOMAIN service_mods : l.hour = hour})
        counts == calculate_interval_counts(interval_items, interval_mods)
    IN  IF SumCols(counts, numeric_cols) > 0
          THEN <<[Service |-> service, Interval |-> HourLabel(hour), n |-> counts]>>
          ELSE << >>

\* the rows appended for one half hour of a service, '30 Minutes'
HalfHourRows(service_items, service_mods, service, date, hour, minute) ==
    LET start_time == Stamp(date, hour, minute)
        end_time == start_time + 30
        InInterval(l) == /\ Stamp(l.date, l.hour, l.minute) >= start_time
                         /\ Stamp(l.date, l.hour, l.minute) < end_time
        interval_items == Rows(service_items,
                               {l \in DOMAIN service_items : InInterval(l)})
        interval_mods == Rows(service_mods,
                              {l \in DOMAIN service_mods : InInterval(l)})
        counts == calculate_interval_counts(interval_items, interval_mods)
    IN  IF SumCols(counts, numeric_cols) > 0
          THEN <<[Service |-> service, Interval |-> HalfHourLabel(hour, minute),
                  n |-> counts]>>
          ELSE << >>

\* the rows appended for one service period of one date
ServiceRows(date_items, date_mods, date, service, interval_type) ==
    LET InService(l) == l.hour >= start_hour(service) /\ l.hour < end_hour(service)
        service_items == Rows(date_items, {l \in DOMAIN date_items : InService(l)})
        service_mods == Rows(date_mods, {l \in DOMAIN date_mods : InService(l)})
        nhours == end_hour(service) - start_hour(service)
    IN  IF interval_type = "1 Hour"
          THEN Flatten([i \in 1..nhours |->
                 HourRows(service_items, service_mods, service,
                          start_hour(service) + i - 1)])
          ELSE Flatten([i \in 1..(2 * nhours) |->
                 HalfHourRows(service_items, service_mods, service, date,
                              start_hour(service) + ((i - 1) \div 2),
                              30 * ((i - 1) % 2))])

\* the rows appended for one date
DateRows(items, mods, date, interval_type) ==
    LET date_items == Rows(items, {l \in DOMAIN items : l.date = date})
        date_mods == Rows(mods, {l \in DOMAIN mods : l.date = date})
    IN  Flatten([s \in 1..Len(Services) |->
            ServiceRows(date_items, date_mods, date, Services[s], interval_type)])

generate_report_data(items, mods, interval_type) ==
    IF IsEmpty(items) THEN << >>
    ELSE LET dates == SortedSeq({l.date : l \in DOMAIN items})
             report_data == Flatten([d \in 1..Len(dates) |->
                                DateRows(items, mods, dates[d], interval_type)])
         IN  sort_values(report_data, <<"Service", "Interval">>)


-----------------------------------------------------------------------------
(* utils.save_report_data, on table new_sales_data *)

\* UNIQUE (location, order_date, service, interval_time)
RowKey(r) == <<r.location, r.order_date, r.service, r.interval_time>>

\* [variant: a plain INSERT into a table without the UNIQUE constraint]
InsertOnly(table, rec) == table \cup {rec}

\* INSERT ... ON CONFLICT (location, order_date, service, interval_time) DO UPDATE
Upsert(table, rec) == {r \in table : RowKey(r) # RowKey(rec)} \cup {rec}

RECURSIVE InsertRows(_, _, _, _)
\* for _, row in report_df.iterrows(): INSERT ...
InsertRows(table, date, location, rows) ==
    IF rows = << >> THEN table
    ELSE LET row == Head(rows)
             rec == [location |-> location, order_date |-> date,
                     service |-> row.Service, interval_time |-> row.Interval,
                     n |-> row.n]
         IN  InsertRows(Upsert(table, rec), date, location, Tail(rows))

\* [variant: the DELETE is by order_date alone]
save_report_data_by_date(table, date, location, report_df) ==
    IF report_df = << >> THEN table
    ELSE LET kept == {r \in table : r.order_date # date}
         IN  InsertRows(kept, date, location, report_df)

save_report_data(table, date, location, report_df) ==
    IF report_df = << >> THEN table
    ELSE LET kept == {r \in table : ~(r.order_date = date /\ r.location = location)}
         IN  InsertRows(kept, date, location, report_df)

-----------------------------------------------------------------------------
(* utils.convert_to_30min_intervals *)

Colon == 58

IsDigit(c) == c >= 48 /\ c <= 57

\* hour_str.split(':')[0]
BeforeColon(str) ==
    IF \E i \in 1..Len(str) : str[i] = Colon
      THEN LET p == CHOOSE i \in 1..Len(str) :
                       str[i] = Colon /\ \A j \in 1..(i - 1) : str[j] # Colon
           IN  SubSeq(str, 1, p - 1)
      ELSE str

\* int(text) succeeds (decimal digits only; signs and blanks do not occur)
IsInt(text) == Len(text) > 0 /\ \A i \in 1..Len(text) : IsDigit(text[i])

RECURSIVE ParseInt(_)
\* int(text) of decimal digits
ParseInt(text) ==
    IF text = << >> THEN 0
    ELSE 10 * ParseInt(SubSeq(text, 1, Len(text) - 1)) + (text[Len(text)] - 48)

\* [variant: int(v / 2), the half rounded down]
FirstHalfFloor(v) == v \div 2

\* int(v / 2 + 0.5) of an integer v >= 0
FirstHalf(v) == (v + 1) \div 2

\* what one row of hourly_df adds to result_rows
SplitRow(row) ==
    IF ~Contains(row.Interval, <<Colon>>) \/ Contains(row.Service, TotalWord)
      THEN <<row>>
    ELSE IF ~IsInt(BeforeColon(row.Interval)) THEN <<row>>
    ELSE LET hour == ParseInt(BeforeColon(row.Interval))
             first == [k \in NumericSet |-> FirstHalf(row.n[k])]
             second == [k \in NumericSet |-> row.n[k] - first[k]]
         IN  << [Service |-> row.Service, Interval |-> HalfHourLabel(hour, 0),
                 n |-> first],
                [Service |-> row.Service, Interval |-> HalfHourLabel(hour, 30),
                 n |-> second] >>

convert_to_30min_intervals(hourly_df) ==
    IF hourly_df = << >> THEN hourly_df
    ELSE sort_values(Flatten([i \in 1..Len(hourly_df) |-> SplitRow(hourly_df[i])]),
                     <<"Service", "Interval">>)

-----------------------------------------------------------------------------
(* utils.get_report_data *)

\* CASE service WHEN 'Lunch' THEN 1 WHEN 'Dinner' THEN 2 END (NULL sorts last)
ServiceRank(service) ==
    IF service = Lunch THEN 1 ELSE IF service = Dinner THEN 2 ELSE 3

\* ORDER BY CASE service ... END, interval_time
SqlOrderLT(a, b) ==
    \/ ServiceRank(a.Service) < ServiceRank(b.Service)
    \/ ServiceRank(a.Service) = ServiceRank(b.Service)
         /\ StrLT(a.Interval, b.Interval)

RECURSIVE SelectOrdered(_)
\* the selected rows as a sequence in the order of ORDER BY
SelectOrdered(rows) ==
    IF rows = {} THEN << >>
    ELSE LET m == CHOOSE x \in rows : \A y \in rows : ~SqlOrderLT(y, x)
         IN  <<m>> \o SelectOrdered(rows \ {m})

get_report_data(table, date, location, interval_type) ==
    LET selected == {[Service |-> r.service, Interval |-> r.interval_time, n |-> r.n] :
                       r \in {x \in table : x.order_date = date /\ x.location = location}}
        df == sort_values(SelectOrdered(selected), <<"Service", "Interval">>)
    IN  IF df # << >> /\ interval_type = "30 Minutes"
          THEN convert_to_30min_intervals(df)
          ELSE df


-----------------------------------------------------------------------------
(* main.py: service totals, grand total, _sort_order *)

RECURSIVE SumRows(_, _)
\* df[col].sum()
SumRows(rows, col) ==
    IF rows = << >> THEN 0 ELSE Head(rows).n[col] + SumRows(Tail(rows), col)

\* df[numeric_cols].sum()
ColumnSums(rows) == [k \in NumericSet |-> SumRows(rows, k)]

\* [variant: a total row also for a service that has no data]
ServiceTotalRowsUnguarded(report_df, service) ==
    <<[Service |-> ServiceTotalName(service), Interval |-> EmptyStr,
       n |-> ColumnSums(SelectSeq(report_df, LAMBDA r : r.Service = service))]>>

\* the service_total of one service: no row when the service has no data
ServiceTotalRows(report_df, service) ==
    LET service_data == SelectSeq(report_df, LAMBDA r : r.Service = service)
    IN  IF service_data # << >>
          THEN <<[Service |-> ServiceTotalName(service), Interval |-> EmptyStr,
                  n |-> ColumnSums(service_data)]>>
          ELSE << >>

\* service_totals, over ['Lunch', 'Dinner']
ServiceTotals(report_df) ==
    Flatten([s \in 1..Len(Services) |-> ServiceTotalRows(report_df, Services[s])])

\* grand_total
GrandTotalRow(report_df) ==
    [Service |-> GrandTotal, Interval |-> EmptyStr, n |-> ColumnSums(report_df)]

\* the value of column _sort_order
SortOrderOf(row) ==
    IF row.Service = GrandTotal THEN 2
    ELSE IF ContainsNoCase(row.Service, TotalWord) THEN 1
    ELSE 0

\* [variant: sorted by 'Service' and 'Interval' alone, without _sort_order]
DisplaySortByService == <<"Service", "Interval">>

\* the columns the displayed report is sorted by
DisplaySortBy == <<"_sort_order", "Service", "Interval">>

\* report_df after "Format data for display" and "Add a sort order column"
AssembleReport(report_df) ==
    IF report_df = << >> THEN << >>
    ELSE LET combined == report_df \o ServiceTotals(report_df)
                                   \o <<GrandTotalRow(report_df)>>
             tagged == [i \in 1..Len(combined) |->
                          [Service |-> combined[i].Service,
                           Interval |-> combined[i].Interval,
                           n |-> combined[i].n,
                           sort_order |-> SortOrderOf(combined[i])]]
         IN  sort_values(tagged, DisplaySortBy)

-----------------------------------------------------------------------------
(* main.py: the HTML table *)

TableRow(class, row) ==
    [class |-> class, Service |-> row.Service, Interval |-> row.Interval, n |-> row.n]

\* the <tr> elements of one service: its interval rows, then its total row
ServiceTableRows(report_df, service) ==
    LET service_rows ==
            sort_values(SelectSeq(report_df,
                            LAMBDA r : r.Service = service
                                       /\ ~ContainsNoCase(r.Service, TotalWord)),
                        <<"Interval">>)
        service_total_row ==
            SelectSeq(report_df, LAMBDA r : r.Service = ServiceTotalName(service))
    IN  [i \in 1..Len(service_rows) |-> TableRow("", service_rows[i])]
        \o [i \in 1..Len(service_total_row) |->
                TableRow("total-row", service_total_row[i])]

\* the <tr> elements of table_html below the header
RenderTable(report_df) ==
    IF report_df = << >> THEN << >>
    ELSE LET grand_total_row == SelectSeq(report_df, LAMBDA r : r.Service = GrandTotal)
         IN  Flatten([s \in 1..Len(Services) |->
                        ServiceTableRows(report_df, Services[s])])
             \o [i \in 1..Len(grand_total_row) |->
                     TableRow("grand-total-row", grand_total_row[i])]


-----------------------------------------------------------------------------
(* The uploaded lines *)

Kenner == <<75, 101, 110, 110, 101, 114>>                         \* 'Kenner'
Metairie == <<77, 101, 116, 97, 105, 114, 105, 101>>              \* 'Metairie'

\* the value None (no text)
None == <<-1>>

\* selected_date = None: the date filter has no date (days are numbered from 1)
NoDate == 0

\* A line of a frame load_data returned: 'Void?' is not 'true', 'Order Date' is
\* a timestamp, 'Qty' and 'PLU' are numbers.  order_id and line_id are the
\* order and selection identifiers of the export.
Line(date, hour, minute, plu, qty, order_id, line_id) ==
    [Location |-> Kenner, date |-> date, hour |-> hour, minute |-> minute,
     PLU |-> plu, Qty |-> qty, order_id |-> order_id, line_id |-> line_id]

\* Item lines: at 13:15, every kind of code (two categories, one category, a
\* side, no category) with Qty 0.5 and 1.0, and with Qty 1.0 a code that starts
\* with the digits of a side's code and no code at all; a side with Qty 1.0 at
\* other times of day; Qty 2.0 of code 81831 at 12:30; a side on a second date.
ItemPool ==
    {Line(1, 13, 15, plu, qty, 1, 1) : plu \in {81831, 3001, 2307, 9999}, qty \in {1, 2}}
    \cup {Line(1, 13, 15, plu, 2, 1, 1) : plu \in {23070, NaN}}
    \cup {Line(1, t[1], t[2], 2307, 2, 2, 1) :
            t \in {<<2, 15>>, <<9, 5>>, <<13, 45>>, <<17, 0>>, <<23, 30>>}}
    \cup {Line(1, 12, 30, 81831, 4, 3, 1), Line(2, 13, 15, 2307, 2, 4, 1)}

\* Modifier lines: Corn modifiers of order 1 at 13:15 on selection 1 or 2, with
\* Qty 0.5 and 1.0; a second Corn code on selection 1; a 6oz modifier at 17:00.
ModPool ==
    {Line(1, 13, 15, 2307, qty, 1, line_id) : qty \in {1, 2}, line_id \in {1, 2}}
    \cup {Line(1, 13, 15, 3082, 2, 1, 1), Line(1, 17, 0, 3316, 2, 2, 3)}

DateSet == {l.date : l \in ItemPool \cup ModPool}

IntervalTypes == {"1 Hour", "30 Minutes"}

RECURSIVE FramesUpTo(_)
\* every pair (item frame, modifier frame) of at most n lines together
FramesUpTo(n) ==
    IF n = 0 THEN {<<EmptyBag, EmptyBag>>}
    ELSE LET prev == FramesUpTo(n - 1)
         IN  prev
             \cup {<<p[1] (+) SetToBag({l}), p[2]>> : p \in prev, l \in ItemPool}
             \cup {<<p[1], p[2] (+) SetToBag({l})>> : p \in prev, l \in ModPool}

-----------------------------------------------------------------------------
(* The state machine *)

\* no call of convert_to_30min_intervals is under way
NoConvert == conv_df = << >> /\ conv_result_df = << >>

\* nothing is uploaded or pulled
NoIngest ==
    /\ items_file = EmptyBag
    /\ modifiers_file = EmptyBag
    /\ response_data = EmptyBag
    /\ orders_data = EmptyBag

\* engine.connect() gave no connection
NoConn == 0

\* retry_delay = 1
first_delay == 1

\* get_db_connection has not been called
NoRetry ==
    /\ attempt = 0
    /\ retry_delay = first_delay
    /\ conn = NoConn
    /\ slept = << >>
    /\ opened = << >>

\* A frame of the session state is a sequence: empty when the entry is None,
\* else the frame alone.
Unset == << >>

\* the session has just started: main.py sets both frames to None
NoSession ==
    /\ items_df = Unset
    /\ modifiers_df = Unset
    /\ runs = 0
    /\ uploads = 0

\* the connections of two sessions that save at the same time
Conns == {1, 2}

\* a connection on which save_report_data has opened no transaction
IdleTx ==
    [pc |-> "idle", date |-> NoDate, location |-> None, report_df |-> << >>,
     next |-> 1, deleted |-> {}, written |-> {}]

NoTx == [c \in Conns |-> IdleTx]

\* save_report_data has not been called on its own
NoSaveCall ==
    /\ saves = 0
    /\ save_call = [date |-> NoDate, location |-> None, report_df |-> << >>]
    /\ db_before = {}

Init ==
    /\ \E frames \in FramesUpTo(MaxLines) :
          /\ new_items_df = frames[1]
          /\ new_modifiers_df = frames[2]
    /\ pc = "loaded"
    /\ gen_type = "1 Hour"
    /\ gen_df = << >>
    /\ db = {}
    /\ selected_location = None
    /\ selected_date = NoDate
    /\ view_type = "1 Hour"
    /\ fetched_df = << >>
    /\ display_df = << >>
    /\ table_rows = << >>
    /\ NoConvert
    /\ NoSaveCall
    /\ tx = NoTx
    /\ NoIngest
    /\ NoRetry
    /\ NoSession

\* a call generate_report_data(items_df, modifiers_df, interval_type)
Generate(interval_type) ==
    /\ pc = "loaded"
    /\ pc' = "generated"
    /\ gen_type' = interval_type
    /\ gen_df' = generate_report_data(new_items_df, new_modifiers_df, interval_type)
    /\ UNCHANGED <<new_items_df, new_modifiers_df, db, selected_location, selected_date,
                   view_type, fetched_df, display_df, table_rows>>
    /\ UNCHANGED <<convertVars, storeVars, tx, ingestVars, retryVars, sessionVars>>

\* sorted(S)[0] of a set of texts
FirstText(S) == CHOOSE x \in S : \A y \in S : ~StrLT(y, x)

\* the (date, location) pairs of the upload loop, in some order of iteration
RECURSIVE SaveEach(_, _, _, _)
SaveEach(table, pairs, items, mods) ==
    IF pairs = {} THEN table
    ELSE LET pr == CHOOSE x \in pairs : TRUE
             date == pr[1]
             location == pr[2]
             date_items == Rows(items, {l \in DOMAIN items :
                                           l.date = date /\ l.Location = location})
             date_mods == Rows(mods, {l \in DOMAIN mods :
                                         l.date = date /\ l.Location = location})
             report_df == generate_report_data(date_items, date_mods, "1 Hour")
         IN  SaveEach(save_report_data(table, date, location, report_df),
                      pairs \ {pr}, items, mods)

\* main.py, "Load data when files are uploaded": the uploaded lines are
\* reported per date and location at '1 Hour' and saved.
ProcessUpload ==
    /\ pc = "loaded"
    /\ LET db_locations == {r.location : r \in db}
           new_locations == {l.Location : l \in DOMAIN new_items_df}
           locations == db_locations \cup new_locations
           selected == IF selected_location \notin locations
                         THEN (IF locations # {} THEN FirstText(locations) ELSE None)
                         ELSE selected_location
           new_dates == {l.date : l \in DOMAIN new_items_df}
           locations_to_process ==
               IF selected # None /\ selected \in new_locations
                 THEN {selected} ELSE new_locations
       IN  /\ selected_location' = selected
           /\ db' = SaveEach(db, new_dates \X locations_to_process,
                             new_items_df, new_modifiers_df)
    /\ pc' = "saved"
    /\ UNCHANGED <<new_items_df, new_modifiers_df, gen_type, gen_df, selected_date,
                   view_type, fetched_df, display_df, table_rows>>
    /\ UNCHANGED <<convertVars, storeVars, tx, ingestVars, retryVars, sessionVars>>

\* main.py, a run that displays the report of the selected location, date
\* and interval.  The location filter offers the locations of the table (when the
\* table has none: those of the upload, or no location), the date filter the
\* days from the first to the last date of the table and of the uploaded item
\* lines (no date when there are none).
View(location, date, interval_type) ==
    /\ pc = "saved"
    /\ LET current_db_locations == {r.location : r \in db}
           locations == IF current_db_locations # {}
                        THEN current_db_locations
                        ELSE {l.Location : l \in DOMAIN new_items_df}
           dates == {r.order_date : r \in db} \cup {l.date : l \in DOMAIN new_items_df}
       IN  /\ location \in (IF locations # {} THEN locations ELSE {None})
           /\ IF dates # {}
              THEN /\ date # NoDate
                   /\ \E first, last \in dates : first <= date /\ date <= last
              ELSE date = NoDate
    /\ pc' = "viewed"
    /\ selected_location' = location
    /\ selected_date' = date
    /\ view_type' = interval_type
    /\ fetched_df' = IF date # NoDate /\ location # None
                       THEN get_report_data(db, date, location, interval_type)
                       ELSE << >>
    /\ display_df' = AssembleReport(fetched_df')
    /\ table_rows' = RenderTable(display_df')
    /\ UNCHANGED <<new_items_df, new_modifiers_df, gen_type, gen_df, db>>
    /\ UNCHANGED <<convertVars, storeVars, tx, ingestVars, retryVars, sessionVars>>

Next ==
    \/ \E interval_type \in IntervalTypes : Generate(interval_type)
    \/ ProcessUpload
    \/ \E location \in {Kenner, None}, date \in DateSet \cup {NoDate}, interval_type \in IntervalTypes :
          View(location, date, interval_type)

Spec == Init /\ [][Next]_vars

-----------------------------------------------------------------------------
(* Calls of convert_to_30min_intervals *)

\* the values of a run of main.py before any file is loaded
NoRun ==
    /\ new_items_df = EmptyBag
    /\ new_modifiers_df = EmptyBag
    /\ gen_type = "1 Hour"
    /\ gen_df = << >>
    /\ selected_location = None
    /\ selected_date = NoDate
    /\ view_type = "1 Hour"
    /\ fetched_df = << >>
    /\ display_df = << >>
    /\ table_rows = << >>

\* the numeric columns of a row with a of '1/2 Chix' and b of 'Corn'
CountsOf(a, b) ==
    [k \in NumericSet |-> IF k = "1/2 Chix" THEN a
                          ELSE IF k = "Corn" THEN b
                          ELSE IF k = "Total" THEN a + b
                          ELSE 0]

\* Rows of an hourly frame: a detail row or a service total row, with an
\* hour label, an empty label or a label whose hour is not a number, and
\* every pair of counts up to MaxCount.
HourlyRowPool ==
    {[Service |-> service, Interval |-> interval, n |-> CountsOf(a, b)] :
        service \in {Lunch, ServiceTotalName(Lunch)},
        interval \in {HourLabel(13), HourLabel(9), EmptyStr, <<97, 98, 58, 48, 48>>},
        a \in 0..MaxCount, b \in 0..MaxCount}

\* A second row of the frame: a Dinner hour, a service total, a grand total.
SecondRowPool ==
    {[Service |-> Dinner, Interval |-> HourLabel(17), n |-> CountsOf(1, 1)],
     [Service |-> ServiceTotalName(Dinner), Interval |-> EmptyStr, n |-> CountsOf(2, 1)],
     [Service |-> GrandTotal, Interval |-> EmptyStr, n |-> CountsOf(3, 3)]}

ConvertInit ==
    /\ pc = "frame"
    /\ db = {}
    /\ NoRun
    /\ conv_df \in {<<r>> : r \in HourlyRowPool}
                     \cup {<<r, q>> : r \in HourlyRowPool, q \in SecondRowPool}
                     \cup {<<q, r>> : r \in HourlyRowPool, q \in SecondRowPool}
    /\ conv_result_df = << >>
    /\ NoSaveCall
    /\ tx = NoTx
    /\ NoIngest
    /\ NoRetry
    /\ NoSession

\* a call convert_to_30min_intervals(conv_df)
Convert ==
    /\ pc = "frame"
    /\ pc' = "converted"
    /\ conv_result_df' = convert_to_30min_intervals(conv_df)
    /\ UNCHANGED <<db, runVars, conv_df, storeVars, tx, ingestVars, retryVars, sessionVars>>

ConvertNext == Convert

SpecConvert == ConvertInit /\ [][ConvertNext]_vars

-----------------------------------------------------------------------------
(* Calls of save_report_data, one after the other *)

\* Item lines of the reports that are saved: Corn 1.0 at 13:15 on date 1,
\* Corn 2.0 at 13:15 on date 2, Corn 1.0 at 17:00 on date 1.
StoreLines ==
    {Line(1, 13, 15, 2307, 2, 1, 1), Line(2, 13, 15, 2307, 4, 2, 1),
     Line(1, 17, 0, 2307, 2, 3, 1)}

\* The reports generate_report_data(items_df, modifiers_df, '1 Hour') returns
\* for at most two of these lines and no modifier lines: the empty report,
\* reports of one and of two rows, and for lines of two dates a report with two
\* rows {Lunch, 13:00}.
ReportPool ==
    {generate_report_data(SetToBag(S), EmptyBag, "1 Hour") :
        S \in {T \in SUBSET StoreLines : Cardinality(T) <= 2}}

StoreInit ==
    /\ pc = "store"
    /\ db = {}
    /\ NoRun
    /\ NoConvert
    /\ NoSaveCall
    /\ tx = NoTx
    /\ NoIngest
    /\ NoRetry
    /\ NoSession

\* a call save_report_data(date, location, report_df) that raises nothing
Save(date, location, report_df) ==
    /\ pc = "store"
    /\ saves < MaxSaves
    /\ saves' = saves + 1
    /\ save_call' = [date |-> date, location |-> location, report_df |-> report_df]
    /\ db_before' = db
    /\ db' = save_report_data(db, date, location, report_df)
    /\ UNCHANGED <<pc, runVars, convertVars, tx, ingestVars, retryVars, sessionVars>>

StoreNext ==
    \E date \in {1, 2}, location \in {Kenner, Metairie}, report_df \in ReportPool :
        Save(date, location, report_df)

SpecStore == StoreInit /\ [][StoreNext]_vars

-----------------------------------------------------------------------------
(* Two calls of save_report_data at the same time *)

\* Each call runs its statements in a transaction of its own connection
\* (engine.begin()).  The engine is created without an isolation level, so the
\* transactions run at the READ COMMITTED level of the server: a statement
\* sees the rows committed before it starts and the rows its own transaction
\* wrote; it waits for a row that a transaction in progress has deleted or
\* updated, and for a key that a transaction in progress has inserted.  A
\* statement that has to wait is taken when the wait is over.

\* the transaction of connection c is in progress
InProgress(c) == tx[c].pc = "begun" \/ tx[c].pc = "deleted"

\* the other connection
Other(c) == CHOOSE o \in Conns : o # c

\* the rows of the table that transaction c may not touch yet: deleted or
\* updated by the transaction in progress on the other connection
LockedFor(c) == IF InProgress(Other(c)) THEN tx[Other(c)].deleted ELSE {}

\* the rows a transaction in progress on the other connection has inserted
PendingFor(c) == IF InProgress(Other(c)) THEN tx[Other(c)].written ELSE {}

\* DELETE FROM new_sales_data WHERE order_date = :date AND location = :location
TxDelete(c) ==
    /\ pc = "saving"
    /\ tx[c].pc = "begun"
    /\ LET targets == {r \in db : r.order_date = tx[c].date
                                   /\ r.location = tx[c].location}
       IN  /\ targets \cap LockedFor(c) = {}
           /\ tx' = [tx EXCEPT ![c].pc = "deleted", ![c].deleted = targets]
    /\ UNCHANGED <<pc, db, runVars, convertVars, storeVars, ingestVars, retryVars, sessionVars>>

\* INSERT ... ON CONFLICT (...) DO UPDATE of the next row of report_df
TxInsert(c) ==
    /\ pc = "saving"
    /\ tx[c].pc = "deleted"
    /\ tx[c].next <= Len(tx[c].report_df)
    /\ LET row == tx[c].report_df[tx[c].next]
           rec == [location |-> tx[c].location, order_date |-> tx[c].date,
                   service |-> row.Service, interval_time |-> row.Interval,
                   n |-> row.n]
           own == {r \in tx[c].written : RowKey(r) = RowKey(rec)}
           committed == {r \in db \ tx[c].deleted : RowKey(r) = RowKey(rec)}
       IN  /\ \A r \in PendingFor(c) : RowKey(r) # RowKey(rec)
           /\ committed \cap LockedFor(c) = {}
           /\ tx' = [tx EXCEPT ![c].next = @ + 1,
                                ![c].deleted = @ \cup committed,
                                ![c].written = (@ \ own) \cup {rec}]
    /\ UNCHANGED <<pc, db, runVars, convertVars, storeVars, ingestVars, retryVars, sessionVars>>

\* the end of the with block: COMMIT
TxCommit(c) ==
    /\ pc = "saving"
    /\ tx[c].pc = "deleted"
    /\ tx[c].next > Len(tx[c].report_df)
    /\ db' = (db \ tx[c].deleted) \cup tx[c].written
    /\ tx' = [tx EXCEPT ![c].pc = "committed"]
    /\ UNCHANGED <<pc, runVars, convertVars, storeVars, ingestVars, retryVars, sessionVars>>

\* Two sessions call save_report_data for date 1 and location Kenner with two
\* different reports that are not empty; the table holds the rows of an
\* earlier report for that date and location, or none.
ConcurrentInit ==
    /\ pc = "saving"
    /\ \E earlier \in ReportPool :
          db = save_report_data({}, 1, Kenner, earlier)
    /\ \E r1, r2 \in ReportPool \ {<< >>} :
          /\ r1 # r2
          /\ tx = [c \in Conns |->
                     [IdleTx EXCEPT !.pc = "begun", !.date = 1, !.location = Kenner,
                                    !.report_df = IF c = 1 THEN r1 ELSE r2]]
    /\ NoRun
    /\ NoConvert
    /\ NoSaveCall
    /\ NoIngest
    /\ NoRetry
    /\ NoSession

ConcurrentNext ==
    \E c \in Conns : TxDelete(c) \/ TxInsert(c) \/ TxCommit(c)

SpecConcurrent == ConcurrentInit /\ [][ConcurrentNext]_vars


-----------------------------------------------------------------------------
(* A call of save_report_data in which a statement fails *)

\* [variant: the statements already run stay in the table, as with autocommit]
keep_partial(table, t) == (table \ t.deleted) \cup t.written

\* the table after the with block of engine.begin() is left by an exception:
\* ROLLBACK, nothing of transaction t stays
rollback(table, t) == table

\* The DELETE or an INSERT of the call on connection c raises SQLAlchemyError:
\* the with block rolls the transaction back, the except clause reports the
\* error and raises it again.
TxFail(c) ==
    /\ pc = "saving"
    /\ InProgress(c)
    /\ tx[c].pc = "begun" \/ tx[c].next <= Len(tx[c].report_df)
    /\ db' = rollback(db, tx[c])
    /\ tx' = [tx EXCEPT ![c].pc = "raised", ![c].deleted = {}, ![c].written = {}]
    /\ UNCHANGED <<pc, runVars, convertVars, storeVars, ingestVars, retryVars, sessionVars>>

\* One session calls save_report_data with a report that is not empty; the
\* table holds what two earlier calls saved, kept in db_before.
FailureInit ==
    /\ pc = "saving"
    /\ \E e1, e2 \in ReportPool, d \in {1, 2} :
          db = save_report_data(save_report_data({}, 1, Kenner, e1), d, Metairie, e2)
    /\ db_before = db
    /\ saves = 0
    /\ save_call = [date |-> NoDate, location |-> None, report_df |-> << >>]
    /\ \E date \in {1, 2}, report_df \in ReportPool \ {<< >>} :
          tx = [NoTx EXCEPT ![1] = [IdleTx EXCEPT !.pc = "begun", !.date = date,
                                                    !.location = Kenner,
                                                    !.report_df = report_df]]
    /\ NoRun
    /\ NoConvert
    /\ NoIngest
    /\ NoRetry
    /\ NoSession

FailureNext == TxDelete(1) \/ TxInsert(1) \/ TxCommit(1) \/ TxFail(1)

SpecFailure == FailureInit /\ [][FailureNext]_vars

-----------------------------------------------------------------------------
(* utils.get_db_connection *)

max_retries == 3

\* the connections of the pool an attempt may be given
MaxConns == 3

\* [variant: the wait stays the same]
SameDelay(d) == d

\* retry_delay *= 2
NextDelay(d) == d * 2

RetryInit ==
    /\ pc = "connecting"
    /\ db = {}
    /\ NoRun
    /\ NoConvert
    /\ NoSaveCall
    /\ tx = NoTx
    /\ NoIngest
    /\ NoRetry
    /\ NoSession

\* One pass of the try block: engine.connect() raises (c is NoConn) or gives
\* connection c of the pool, on which SELECT 1 raises or succeeds (ok); on
\* success the connection is returned.  attempt counts the passes made, the
\* loop variable of the code being one less.
Attempt(c, ok) ==
    /\ pc = "connecting"
    /\ attempt < max_retries
    /\ c = NoConn => ~ok
    /\ attempt' = attempt + 1
    /\ opened' = Append(opened, [conn |-> c, ok |-> ok])
    /\ IF ok THEN pc' = "returned" /\ conn' = c
             ELSE pc' = "failed" /\ conn' = conn
    /\ UNCHANGED <<db, runVars, convertVars, storeVars, tx, ingestVars, sessionVars,
                   retry_delay, slept>>

\* the except clause after the last attempt: st.error and raise
Raise ==
    /\ pc = "failed"
    /\ attempt = max_retries
    /\ pc' = "raised"
    /\ UNCHANGED <<db, runVars, convertVars, storeVars, tx, ingestVars, sessionVars,
                   retryVars>>

\* the except clause after an earlier attempt: time.sleep(retry_delay) and
\* the doubling of retry_delay
Sleep ==
    /\ pc = "failed"
    /\ attempt < max_retries
    /\ slept' = Append(slept, retry_delay)
    /\ retry_delay' = NextDelay(retry_delay)
    /\ pc' = "connecting"
    /\ UNCHANGED <<db, runVars, convertVars, storeVars, tx, ingestVars, sessionVars,
                   attempt, conn, opened>>

RetryNext ==
    \/ \E c \in 0..MaxConns, ok \in BOOLEAN : Attempt(c, ok)
    \/ Sleep
    \/ Raise

\* every step of the call is taken in the end: connect, SELECT 1 and sleep
\* return or raise in finite time (pool_timeout, time.sleep)
SpecRetry == RetryInit /\ [][RetryNext]_vars /\ WF_vars(RetryNext)

-----------------------------------------------------------------------------
(* Ingestion: utils.load_data and the pulls of api_integrations.py *)

TrueText == <<116, 114, 117, 101>>                                \* 'true'
FalseText == <<102, 97, 108, 115, 101>>                           \* 'false'
NanText == <<110, 97, 110>>                                       \* 'nan'
ZeroText == <<48>>                                                \* '0'
NotATime == <<110, 47, 97>>                                       \* 'n/a'
NotANumber == <<97, 98, 99>>                                      \* 'abc'

\* str.lower()
Lower(s) == [i \in 1..Len(s) |-> LowerChar(s[i])]

\* the text of a timestamp in a file or a response: '2024-01-DD HH:MM'
StampText(date, hour, minute) ==
    <<50, 48, 50, 52, 45, 48, 49, 45>> \o Fmt02d(date) \o <<32>>
        \o Fmt02d(hour) \o <<Colon>> \o Fmt02d(minute)

\* pd.to_datetime can parse the text (texts of the form above only)
IsStamp(text) ==
    /\ Len(text) = 16
    /\ SubSeq(text, 1, 8) = <<50, 48, 50, 52, 45, 48, 49, 45>>
    /\ IsInt(SubSeq(text, 9, 10)) /\ ParseInt(SubSeq(text, 9, 10)) \in 1..31
    /\ text[11] = 32
    /\ IsInt(SubSeq(text, 12, 13)) /\ ParseInt(SubSeq(text, 12, 13)) < 24
    /\ text[14] = Colon
    /\ IsInt(SubSeq(text, 15, 16)) /\ ParseInt(SubSeq(text, 15, 16)) < 60

\* the day of January, the hour and the minute of a parsed timestamp
StampOf(text) ==
    [date |-> ParseInt(SubSeq(text, 9, 10)),
     hour |-> ParseInt(SubSeq(text, 12, 13)),
     minute |-> ParseInt(SubSeq(text, 15, 16))]

\* pd.to_datetime(column) raises: errors='raise' is the default
to_datetime_raises(file) == \E r \in DOMAIN file : ~IsStamp(r.OrderDate)

\* pd.to_numeric can parse the text: digits, or digits followed by .0 or .5
IsNumber(text) ==
    \/ IsInt(text)
    \/ /\ Len(text) >= 3
       /\ IsInt(SubSeq(text, 1, Len(text) - 2))
       /\ text[Len(text) - 1] = 46
       /\ text[Len(text)] \in {48, 53}

\* the parsed number, in 1/QtyScale units
NumberOf(text) ==
    IF IsInt(text) THEN QtyScale * ParseInt(text)
    ELSE QtyScale * ParseInt(SubSeq(text, 1, Len(text) - 2))
         + (IF text[Len(text)] = 53 THEN 1 ELSE 0)

\* pd.to_numeric(col.replace({'false': '0', 'true': '0'}), errors='coerce').fillna(0)
QtyOfCell(text) ==
    LET t == IF text \in {FalseText, TrueText} THEN ZeroText ELSE text
    IN  IF IsNumber(t) THEN NumberOf(t) ELSE 0

\* df['Void?'].str.lower().replace({'nan': 'false'}) != 'true'
Kept(void) ==
    LET v == Lower(void)
    IN  (IF v = NanText THEN FalseText ELSE v) # TrueText

\* the row of the returned frame for a row of a file (column 'Void?' is not
\* read again after load_data and is left out)
ParsedLine(r) ==
    [Location |-> r.Location, date |-> StampOf(r.OrderDate).date,
     hour |-> StampOf(r.OrderDate).hour, minute |-> StampOf(r.OrderDate).minute,
     PLU |-> r.PLU, Qty |-> QtyOfCell(r.Qty),
     order_id |-> r.order_id, line_id |-> r.line_id]

RECURSIVE ParseRows(_, _)
\* the frame of the rows of a file
ParseRows(file, rows) ==
    IF rows = {} THEN EmptyBag
    ELSE LET r == CHOOSE x \in rows : TRUE
         IN  [l \in {ParsedLine(r)} |-> file[r]] (+) ParseRows(file, rows \ {r})

\* load_data raises inside its try block
load_data_raises(items, modifiers) ==
    to_datetime_raises(items) \/ to_datetime_raises(modifiers)

\* the frame load_data returns for one file when nothing raises
load_data(file) == ParseRows(file, {r \in DOMAIN file : Kept(r.Void)})

\* A row of an uploaded file.  PLU is the number read_csv found, or NaN.
CsvRow(location, stamp, plu, qty, void, order_id, line_id) ==
    [Location |-> location, OrderDate |-> stamp, PLU |-> plu, Qty |-> qty,
     Void |-> void, order_id |-> order_id, line_id |-> line_id]

\* Item rows: a Corn item at 13:15 with quantity 1, 0.5 and 'abc', not voided
\* (false, nan) and voided (True, TRUE); the same with a timestamp that is no
\* time; a two-category item at 17:00 on a second date; an item of Metairie.
ItemRowPool ==
    {CsvRow(Kenner, StampText(1, 13, 15), 2307, qty, FalseText, 1, 1) :
        qty \in {<<49>>, <<48, 46, 53>>, NotANumber}}
    \cup {CsvRow(Kenner, StampText(1, 13, 15), 2307, <<49>>, void, 2, 1) :
            void \in {NanText, <<84, 114, 117, 101>>, <<84, 82, 85, 69>>}}
    \cup {CsvRow(Kenner, NotATime, 2307, <<49>>, FalseText, 3, 1),
          CsvRow(Kenner, StampText(2, 17, 0), 81831, <<50>>, FalseText, 4, 1),
          CsvRow(Metairie, StampText(1, 13, 15), 2307, <<49>>, FalseText, 5, 1)}

\* Modifier rows: a Corn modifier of order 1 at 13:15, not voided and voided;
\* one with a timestamp that is no time; one with a quantity that is no number.
ModRowPool ==
    {CsvRow(Kenner, StampText(1, 13, 15), 2307, <<49>>, void, 1, 2) :
        void \in {FalseText, TrueText}}
    \cup {CsvRow(Kenner, NotATime, 2307, <<49>>, FalseText, 1, 3),
          CsvRow(Kenner, StampText(1, 13, 15), 2307, NotANumber, FalseText, 1, 4)}

\* pd.to_datetime(df['Order Date'], errors='coerce') of a text that is no time
NaT == 0

\* the row of the frame of _process_generic_api_response for a record whose
\* keys are already the column names; 'Void?' is lowercased and kept
ApiLine(r) ==
    LET ok == IsStamp(r.OrderDate)
    IN  [Location |-> r.Location,
         date |-> IF ok THEN StampOf(r.OrderDate).date ELSE NaT,
         hour |-> IF ok THEN StampOf(r.OrderDate).hour ELSE 0,
         minute |-> IF ok THEN StampOf(r.OrderDate).minute ELSE 0,
         PLU |-> r.PLU, Qty |-> r.Qty,
         order_id |-> r.order_id, line_id |-> r.line_id]

RECURSIVE ApiRows(_, _)
ApiRows(data, rows) ==
    IF rows = {} THEN EmptyBag
    ELSE LET r == CHOOSE x \in rows : TRUE
         IN  [l \in {ApiLine(r)} |-> data[r]] (+) ApiRows(data, rows \ {r})

\* APIDataPuller._process_generic_api_response: no row is filtered out
process_generic_api_response(data) == ApiRows(data, DOMAIN data)

\* A record of the response of a sales API: Qty is a JSON number, Void the
\* text of the JSON value of 'voided'.
ApiRecordPool ==
    {CsvRow(Kenner, StampText(1, 13, 15), 2307, 2, void, 1, 1) :
        void \in {FalseText, <<84, 114, 117, 101>>}}
    \cup {CsvRow(Kenner, NotATime, 2307, 2, FalseText, 2, 1),
          CsvRow(Kenner, StampText(1, 17, 0), 81831, 2, <<84, 114, 117, 101>>, 3, 1),
          CsvRow(Kenner, StampText(2, 13, 15), 3082, 4, FalseText, 4, 1),
          CsvRow(Metairie, StampText(1, 13, 15), 2307, 2, FalseText, 5, 1)}

\* An order of the response of the Toast orders API
Order(openedDate, voided, guid) ==
    [openedDate |-> openedDate, voided |-> voided, guid |-> guid]

\* the item record _process_toast_orders makes of an order
ToastLine(order, location_name) ==
    LET ok == IsStamp(order.openedDate)
    IN  [Location |-> location_name,
         date |-> IF ok THEN StampOf(order.openedDate).date ELSE NaT,
         hour |-> IF ok THEN StampOf(order.openedDate).hour ELSE 0,
         minute |-> IF ok THEN StampOf(order.openedDate).minute ELSE 0,
         PLU |-> 9999, Qty |-> 1 * QtyScale,
         order_id |-> order.guid, line_id |-> 1]

RECURSIVE ToastRows(_, _, _)
ToastRows(data, orders, location_name) ==
    IF orders = {} THEN EmptyBag
    ELSE LET o == CHOOSE x \in orders : TRUE
         IN  [l \in {ToastLine(o, location_name)} |-> data[o]]
                 (+) ToastRows(data, orders \ {o}, location_name)

\* APIDataPuller._process_toast_orders: voided orders and orders without a
\* date are skipped
process_toast_orders(data, location_name) ==
    ToastRows(data, {o \in DOMAIN data : ~o.voided /\ o.openedDate # EmptyStr},
              location_name)

OrderPool ==
    {Order(StampText(1, 13, 15), voided, 1) : voided \in BOOLEAN}
    \cup {Order(StampText(1, 17, 30), FALSE, 2), Order(EmptyStr, FALSE, 3),
          Order(NotATime, FALSE, 4), Order(StampText(2, 9, 0), TRUE, 5)}

\* the subsets of S of at most n elements, as bags
BagsUpTo(S, n) == {SetToBag(T) : T \in {U \in SUBSET S : Cardinality(U) <= n}}

\* Two files are uploaded, or a response of a sales API or of the Toast orders
\* API has arrived; the table is empty.
IngestInit ==
    /\ \/ /\ pc = "uploaded"
          /\ \E n \in 0..MaxLines :
                /\ items_file \in BagsUpTo(ItemRowPool, n)
                /\ modifiers_file \in BagsUpTo(ModRowPool, MaxLines - n)
          /\ items_file # EmptyBag
          /\ response_data = EmptyBag
          /\ orders_data = EmptyBag
       \/ /\ pc = "response"
          /\ response_data \in BagsUpTo(ApiRecordPool, MaxLines) \ {EmptyBag}
          /\ items_file = EmptyBag
          /\ modifiers_file = EmptyBag
          /\ orders_data = EmptyBag
       \/ /\ pc = "orders"
          /\ orders_data \in BagsUpTo(OrderPool, MaxLines) \ {EmptyBag}
          /\ items_file = EmptyBag
          /\ modifiers_file = EmptyBag
          /\ response_data = EmptyBag
    /\ db = {}
    /\ NoRun
    /\ NoConvert
    /\ NoSaveCall
    /\ tx = NoTx
    /\ NoRetry
    /\ NoSession

\* main.py, utils.load_data(items_file, modifiers_file): on an exception it
\* returns (None, None) and the run goes on without the upload
LoadData ==
    /\ pc = "uploaded"
    /\ IF load_data_raises(items_file, modifiers_file)
       THEN /\ pc' = "rejected"
            /\ new_items_df' = None
            /\ new_modifiers_df' = None
       ELSE /\ pc' = "loaded"
            /\ new_items_df' = load_data(items_file)
            /\ new_modifiers_df' = load_data(modifiers_file)
    /\ UNCHANGED <<db, gen_type, gen_df, selected_location, selected_date, view_type,
                   fetched_df, display_df, table_rows>>
    /\ UNCHANGED <<convertVars, storeVars, tx, ingestVars, retryVars, sessionVars>>

\* create_api_interface, "Other APIs": the frame of the response is both the
\* items and the modifiers; every date and location of it is reported at
\* '1 Hour' and saved when the report is not empty.  No row equals NaT.
PullSalesData ==
    /\ pc = "response"
    /\ LET pulled_df == process_generic_api_response(response_data)
           new_locations == {l.Location : l \in DOMAIN pulled_df}
           new_dates == {l.date : l \in DOMAIN pulled_df} \ {NaT}
       IN  /\ new_items_df' = pulled_df
           /\ new_modifiers_df' = pulled_df
           /\ db' = SaveEach(db, new_dates \X new_locations, pulled_df, pulled_df)
    /\ pc' = "pulled"
    /\ UNCHANGED <<gen_type, gen_df, selected_location, selected_date, view_type,
                   fetched_df, display_df, table_rows>>
    /\ UNCHANGED <<convertVars, storeVars, tx, ingestVars, retryVars, sessionVars>>

\* create_api_interface, Toast: the orders of one restaurant are made item
\* records, which are the modifiers too, and reported per date
PullToastOrders ==
    /\ pc = "orders"
    /\ LET pulled_df == process_toast_orders(orders_data, Kenner)
           new_dates == {l.date : l \in DOMAIN pulled_df} \ {NaT}
       IN  /\ new_items_df' = pulled_df
           /\ new_modifiers_df' = pulled_df
           /\ db' = SaveEach(db, new_dates \X {Kenner}, pulled_df, pulled_df)
    /\ pc' = "pulled"
    /\ UNCHANGED <<gen_type, gen_df, selected_location, selected_date, view_type,
                   fetched_df, display_df, table_rows>>
    /\ UNCHANGED <<convertVars, storeVars, tx, ingestVars, retryVars, sessionVars>>

IngestNext ==
    \/ LoadData
    \/ \E interval_type \in IntervalTypes : Generate(interval_type)
    \/ ProcessUpload
    \/ PullSalesData
    \/ PullToastOrders

SpecIngest == IngestInit /\ [][IngestNext]_vars

-----------------------------------------------------------------------------
(* The runs of main.py in one session *)

\* the runs of the script and the file pairs put in the uploader in a session
MaxRuns == 4
MaxUploads == 2

\* st.session_state.<frame> is None
IsNone(entry) == Len(entry) = 0

\* the session entry that holds frame df
Set(df) == <<df>>

\* File pairs a user uploads: a Corn item and a Corn modifier of Kenner at
\* 13:15 on date 1; a two-category item of Kenner at 17:00 on date 2 with a
\* voided modifier; an item of Metairie with a Corn modifier of Kenner; an item
\* whose timestamp is no time.
FilePairs ==
    LET corn_item == CsvRow(Kenner, StampText(1, 13, 15), 2307, <<49>>, FalseText, 1, 1)
        corn_mod == CsvRow(Kenner, StampText(1, 13, 15), 2307, <<49>>, FalseText, 1, 2)
        void_mod == CsvRow(Kenner, StampText(1, 13, 15), 2307, <<49>>, TrueText, 1, 2)
    IN  {<<SetToBag({corn_item}), SetToBag({corn_mod})>>,
         <<SetToBag({CsvRow(Kenner, StampText(2, 17, 0), 81831, <<50>>, FalseText, 4, 1)}),
           SetToBag({void_mod})>>,
         <<SetToBag({CsvRow(Metairie, StampText(1, 13, 15), 2307, <<49>>, FalseText, 5, 1)}),
           SetToBag({corn_mod})>>,
         <<SetToBag({CsvRow(Kenner, NotATime, 2307, <<49>>, FalseText, 3, 1)}),
           SetToBag({corn_mod})>>}

\* the uploaders hold no file
NoFiles == <<EmptyBag, EmptyBag>>

\* [variant: only items_df is set to None]
clear_items_only(items, modifiers) == <<Unset, modifiers>>

\* 'Clear All Data': both entries are set to None
clear_all_data(items, modifiers) == <<Unset, Unset>>

\* 'Recalculate Data': when both entries are set, every date of the session
\* items is reported at '1 Hour' for the selected location (when the items have
\* it, else for all their locations) and saved
recalculate(table, items, modifiers, selected) ==
    IF IsNone(items) \/ IsNone(modifiers) THEN table
    ELSE LET dates == {l.date : l \in DOMAIN items[1]}
             locations == {l.Location : l \in DOMAIN items[1]}
             locations_to_process ==
                 IF selected # None /\ selected \in locations
                   THEN {selected} ELSE locations
         IN  SaveEach(table, dates \X locations_to_process, items[1], modifiers[1])

\* the location filter: the locations of the table (those of the session
\* items when the table has none); the selection stays when it is one of
\* them, else it is the first, unless the user picks another (choice)
location_filter(table, items, selected, choice) ==
    LET current_db_locations == {r.location : r \in table}
        locations == IF current_db_locations # {} THEN current_db_locations
                     ELSE IF IsNone(items) THEN {}
                     ELSE {l.Location : l \in DOMAIN items[1]}
    IN  IF locations = {} THEN selected
        ELSE IF choice # None /\ choice \in locations THEN choice
        ELSE IF selected # None /\ selected \in locations THEN selected
        ELSE FirstText(locations)

\* "Store uploaded data - append to existing data if present": pd.concat
append_frame(entry, new_df) ==
    IF IsNone(entry) THEN Set(new_df) ELSE Set(entry[1] (+) new_df)

\* the selected location after the upload block
upload_selected(table, new_items, selected) ==
    LET locations == {r.location : r \in table} \cup {l.Location : l \in DOMAIN new_items}
    IN  IF selected \notin locations
          THEN (IF locations # {} THEN FirstText(locations) ELSE None)
          ELSE selected

\* the table after the upload block: the new lines are reported per date at
\* '1 Hour' for the selected location (when they have it) and saved
upload_save(table, new_items, new_modifiers, selected) ==
    LET new_locations == {l.Location : l \in DOMAIN new_items}
        new_dates == {l.date : l \in DOMAIN new_items}
        locations_to_process ==
            IF selected # None /\ selected \in new_locations
              THEN {selected} ELSE new_locations
    IN  SaveEach(table, new_dates \X locations_to_process, new_items, new_modifiers)

SessionInit ==
    /\ pc = "started"
    /\ db = {}
    /\ NoRun
    /\ NoConvert
    /\ NoSaveCall
    /\ tx = NoTx
    /\ NoIngest
    /\ NoRetry
    /\ NoSession

\* One run of the script.  button is what the user did: put a file pair in
\* the uploaders ("files"), pressed 'Clear All Data' (the entries are cleared
\* and st.rerun() starts the script again), 'Upload Another Location' (the
\* uploaders are made anew, empty), 'Recalculate Data', or changed another
\* widget ("none").  The script runs the Recalculate block, the filters and
\* then the upload block, which runs whenever the uploaders hold files.
Run(button, files, choice) ==
    /\ runs < MaxRuns
    /\ runs' = runs + 1
    /\ IF button = "files"
         THEN uploads < MaxUploads /\ files \in FilePairs /\ uploads' = uploads + 1
         ELSE files = NoFiles /\ uploads' = uploads
    /\ LET held == IF button = "files" THEN files
                   ELSE IF button = "another" THEN NoFiles
                   ELSE <<items_file, modifiers_file>>
           session == IF button = "clear" THEN clear_all_data(items_df, modifiers_df)
                      ELSE <<items_df, modifiers_df>>
           recalculated == IF button = "recalculate"
                             THEN recalculate(db, session[1], session[2], selected_location)
                             ELSE db
           filtered == location_filter(recalculated, session[1], selected_location, choice)
           loaded == /\ DOMAIN held[1] # {} /\ DOMAIN held[2] # {}
                     /\ ~load_data_raises(held[1], held[2])
           new_items == load_data(held[1])
           new_modifiers == load_data(held[2])
           selected == upload_selected(recalculated, new_items, filtered)
       IN  /\ items_file' = held[1]
           /\ modifiers_file' = held[2]
           /\ IF loaded
                THEN /\ items_df' = append_frame(session[1], new_items)
                     /\ modifiers_df' = append_frame(session[2], new_modifiers)
                     /\ selected_location' = selected
                     /\ db' = upload_save(recalculated, new_items, new_modifiers, selected)
                ELSE /\ items_df' = session[1]
                     /\ modifiers_df' = session[2]
                     /\ selected_location' = filtered
                     /\ db' = recalculated
    /\ pc' = button
    /\ UNCHANGED <<new_items_df, new_modifiers_df, gen_type, gen_df, selected_date,
                   view_type, fetched_df, display_df, table_rows>>
    /\ UNCHANGED <<convertVars, storeVars, tx, response_data, orders_data, retryVars>>

SessionNext ==
    \/ \E files \in FilePairs, choice \in {None, Metairie} : Run("files", files, choice)
    \/ \E button \in {"none", "clear", "another", "recalculate"}, choice \in {None, Metairie} :
          Run(button, NoFiles, choice)

SpecSession == SessionInit /\ [][SessionNext]_vars

-----------------------------------------------------------------------------
(* What the properties below speak of *)

\* the lines of a frame, as a set
Lines(df) == DOMAIN df

\* every line given to generate_report_data
AllLines == Lines(new_items_df) \cup Lines(new_modifiers_df)

\* generate_report_data was called with the lines of a single date, as every
\* caller in main.py and api_integrations.py calls it
SingleDate == Cardinality({l.date : l \in AllLines}) <= 1

\* a code that appears in the code list of some category
Classified(plu) == \E c \in CategorySet : plu \in plu_mapping[c]

\* the service period of an hour of day: Lunch is [6, 16), Dinner the rest
ExpectedService(hour) == IF 6 <= hour /\ hour < 16 THEN Lunch ELSE Dinner

\* two decimal digits, zero-padded
Pad2(n) == IF n < 10 THEN <<48, 48 + n>> ELSE <<48 + (n \div 10), 48 + (n % 10)>>

\* the width in minutes of an interval type
Width(interval_type) == IF interval_type = "30 Minutes" THEN 30 ELSE 60

\* 'HH:MM' of the start of the interval of (hour, minute)
ExpectedLabel(hour, minute, width) ==
    Pad2(hour) \o <<58>> \o Pad2((minute \div width) * width)

\* the lines of frame df that fall in the bucket of row r
BucketLines(df, r, width) ==
    {l \in Lines(df) : /\ ExpectedService(l.hour) = r.Service
                       /\ ExpectedLabel(l.hour, l.minute, width) = r.Interval}

RECURSIVE QtyOf(_, _)
\* the Qty of the lines S of frame df, summed (in 1/QtyScale units)
QtyOf(df, S) ==
    IF S = {} THEN 0
    ELSE LET l == CHOOSE x \in S : TRUE
         IN  df[l] * l.Qty + QtyOf(df, S \ {l})

\* the rows of a report frame whose Service is s
RowsOf(df, s) == SelectSeq(df, LAMBDA r : r.Service = s)

\* row r has a category count that is not zero
HasCount(r) == \E c \in CategorySet : r.n[c] # 0

\* minutes after midnight of a label 'HH:MM'
LabelMinutes(label) ==
    ((label[1] - 48) * 10 + (label[2] - 48)) * 60
        + (label[4] - 48) * 10 + (label[5] - 48)

-----------------------------------------------------------------------------
(* C1 *)

\* C1: in every detail row generate_report_data returns, Total is the sum of
\* the eight category counts.
C1_TotalIsCategorySum ==
    pc = "generated" =>
        \A i \in 1..Len(gen_df) :
            gen_df[i].n["Total"] = SumCols(gen_df[i].n, Categories)

-----------------------------------------------------------------------------
(* C2 *)

\* C2: in the assembled report, a service with detail rows has exactly one
\* '<Service> Total' row, each numeric column of which is the sum of that column
\* over the detail rows of the service; a service without detail rows has no
\* total row; there is exactly one 'Grand Total' row, each numeric column of
\* which is the sum of that column over the service total rows.
C2_TotalsAreSums ==
    (pc = "viewed" /\ display_df # << >>) =>
        LET subtotals == SelectSeq(display_df,
                            LAMBDA r : r.Service \in {ServiceTotalName(Lunch),
                                                       ServiceTotalName(Dinner)})
            grand == RowsOf(display_df, GrandTotal)
        IN  /\ \A s \in {Lunch, Dinner} :
                 LET details == RowsOf(display_df, s)
                     total == RowsOf(display_df, ServiceTotalName(s))
                 IN  IF details # << >>
                       THEN /\ Len(total) = 1
                            /\ \A k \in NumericSet :
                                  total[1].n[k] = SumRows(details, k)
                       ELSE total = << >>
            /\ Len(grand) = 1
            /\ \A k \in NumericSet : grand[1].n[k] = SumRows(subtotals, k)

\* a displayed report with detail rows of both services
C2_Witness ==
    /\ pc = "viewed"
    /\ RowsOf(display_df, Lunch) # << >>
    /\ RowsOf(display_df, Dinner) # << >>
    /\ RowsOf(display_df, GrandTotal) # << >>

-----------------------------------------------------------------------------
(* C3 *)

\* C3: when the only lines of a bucket that match a category are two or more
\* modifier lines of one (order_id, line_id), all of the same whole quantity,
\* the count of that category in the bucket is that quantity, once.
C3_SharedLineCountedOnce ==
    (pc = "generated" /\ SingleDate) =>
        \A i \in 1..Len(gen_df) : \A c \in CategorySet :
            LET w == Width(gen_type)
                its == {l \in BucketLines(new_items_df, gen_df[i], w) :
                            l.PLU \in plu_mapping[c]}
                mds == {l \in BucketLines(new_modifiers_df, gen_df[i], w) :
                            l.PLU \in plu_mapping[c]}
            IN  \A m \in mds :
                    ( /\ its = {}
                      /\ \A x \in mds : /\ x.order_id = m.order_id
                                        /\ x.line_id = m.line_id
                                        /\ x.Qty = m.Qty
                      /\ m.Qty % QtyScale = 0 )
                    => gen_df[i].n[c] = m.Qty \div QtyScale

-----------------------------------------------------------------------------
(* C4 *)

\* C4: a single line adds its quantity to at most one category count.
C4_AtMostOneCategory ==
    (pc = "generated" /\ BagCardinality(new_items_df) + BagCardinality(new_modifiers_df) = 1) =>
        \A i \in 1..Len(gen_df) :
            Cardinality({c \in CategorySet : gen_df[i].n[c] # 0}) <= 1

-----------------------------------------------------------------------------
(* C5 *)

\* the detail row {Lunch, 12:00} with '1/2 Chix' = 2, Total = 2 and zero elsewhere
C5_Counts == [k \in NumericSet |-> IF k \in {"1/2 Chix", "Total"} THEN 2 ELSE 0]

\* C5: one item line with code 81831, quantity 2 at 12:30 and no modifier line
\* give the single detail row {Lunch, 12:00, '1/2 Chix': 2, Total: 2}, and a
\* 'Lunch Total' and a 'Grand Total' row with '1/2 Chix' = 2 and Total = 2.
C5_Scenario ==
    ( /\ BagCardinality(new_items_df) = 1
      /\ \A l \in Lines(new_items_df) :
            l.PLU = 81831 /\ l.Qty = 2 * QtyScale /\ l.hour = 12 /\ l.minute = 30
      /\ IsEmpty(new_modifiers_df) ) =>
        /\ (pc = "generated" /\ gen_type = "1 Hour") =>
              gen_df = <<[Service |-> Lunch, Interval |-> <<49, 50, 58, 48, 48>>,
                          n |-> C5_Counts]>>
        /\ (pc = "viewed" /\ view_type = "1 Hour"
                /\ selected_date \in {l.date : l \in Lines(new_items_df)}) =>
              /\ \E i \in 1..Len(display_df) :
                    /\ display_df[i].Service = ServiceTotalName(Lunch)
                    /\ display_df[i].n = C5_Counts
              /\ \E i \in 1..Len(display_df) :
                    /\ display_df[i].Service = GrandTotal
                    /\ display_df[i].n = C5_Counts


-----------------------------------------------------------------------------
(* C6 *)

\* C6: every line of a reported date with a classified code and a quantity of
\* at least 1, at any hour of day 0..23, is counted in exactly one row, the row
\* of its (service, interval) bucket, where the service is Lunch for
\* 6 <= hour < 16 and Dinner for every other hour, hours 0 to 5 included.
C6_EveryLineBucketed ==
    (pc = "generated" /\ SingleDate /\ ~IsEmpty(new_items_df)) =>
        \A l \in AllLines :
            (Classified(l.PLU) /\ l.Qty >= QtyScale) =>
                LET at == {i \in 1..Len(gen_df) :
                              /\ gen_df[i].Service = ExpectedService(l.hour)
                              /\ gen_df[i].Interval =
                                    ExpectedLabel(l.hour, l.minute, Width(gen_type))}
                IN  /\ Cardinality(at) = 1
                    /\ \A i \in at : \A c \in CategorySet :
                          l.PLU \in plu_mapping[c] =>
                              gen_df[i].n[c] >= l.Qty \div QtyScale

-----------------------------------------------------------------------------
(* C7 *)

\* C7: every row generate_report_data returns is labelled 'HH:MM', zero-padded,
\* the start of an interval of the width (minute 00 at width 60, 00 or 30 at
\* width 30), and holds for each category the summed quantity of the lines
\* whose (hour, minute), minute floored to a multiple of the width, give that
\* label; every line from 06:00 on with a classified code and a quantity of at
\* least 1 is in the row labelled so.
C7_IntervalLabels ==
    (pc = "generated" /\ SingleDate) =>
        LET w == Width(gen_type)
        IN  /\ \A i \in 1..Len(gen_df) :
                 /\ \E hour \in 0..23, minute \in {0, 30} :
                       /\ minute % w = 0
                       /\ gen_df[i].Interval = Pad2(hour) \o <<58>> \o Pad2(minute)
                 /\ \A c \in CategorySet :
                       gen_df[i].n[c] =
                         ( QtyOf(new_items_df,
                                 {l \in BucketLines(new_items_df, gen_df[i], w) :
                                     l.PLU \in plu_mapping[c]})
                         + QtyOf(new_modifiers_df,
                                 {l \in BucketLines(new_modifiers_df, gen_df[i], w) :
                                     l.PLU \in plu_mapping[c]}) ) \div QtyScale
                 /\ \A j \in 1..Len(gen_df) :
                       (gen_df[j].Service = gen_df[i].Service
                           /\ gen_df[j].Interval = gen_df[i].Interval) => j = i
            /\ \A l \in Lines(new_items_df) :
                 (Classified(l.PLU) /\ l.Qty >= QtyScale /\ l.hour >= 6) =>
                     \E i \in 1..Len(gen_df) :
                         gen_df[i].Interval = ExpectedLabel(l.hour, l.minute, w)

\* item lines at 13:15 and 13:45 reported at width 30: rows 13:00 and 13:30
C7_Witness ==
    /\ pc = "generated"
    /\ gen_type = "30 Minutes"
    /\ \E a, b \in Lines(new_items_df) :
          /\ a.hour = 13 /\ a.minute = 15 /\ Classified(a.PLU) /\ a.Qty >= QtyScale
          /\ b.hour = 13 /\ b.minute = 45 /\ Classified(b.PLU) /\ b.Qty >= QtyScale
    /\ SingleDate
    /\ Len(gen_df) = 2
    /\ gen_df[1].Interval = <<49, 51, 58, 48, 48>>
    /\ gen_df[2].Interval = <<49, 51, 58, 51, 48>>

-----------------------------------------------------------------------------
(* C8 *)

\* C8: generate_report_data returns no row whose eight category counts are all
\* zero, and exactly one row for every bucket in which a category count is not
\* zero.
C8_RowIffNonZero ==
    (pc = "generated" /\ SingleDate) =>
        /\ \A i \in 1..Len(gen_df) : HasCount(gen_df[i])
        /\ \A i, j \in 1..Len(gen_df) :
              (gen_df[j].Service = gen_df[i].Service
                  /\ gen_df[j].Interval = gen_df[i].Interval) => j = i
        /\ \A i \in 1..Len(gen_df) : DOMAIN gen_df[i].n = NumericSet
        /\ \A l \in Lines(new_items_df) :
              (Classified(l.PLU) /\ l.Qty >= QtyScale /\ l.hour >= 6) =>
                  \E i \in 1..Len(gen_df) :
                      /\ gen_df[i].Service = ExpectedService(l.hour)
                      /\ gen_df[i].Interval =
                            ExpectedLabel(l.hour, l.minute, Width(gen_type))

-----------------------------------------------------------------------------
(* C9 *)

\* the stored rows of the displayed date and location
StoredRows ==
    {r \in db : r.order_date = selected_date /\ r.location = selected_location}

\* C9: when every stored hourly row has a category count that is not zero, no
\* detail row get_report_data returns at '30 Minutes' has all eight category
\* counts equal to zero.
C9_NoAllZeroHalfHourRow ==
    (pc = "viewed" /\ view_type = "30 Minutes"
        /\ \A r \in StoredRows : \E c \in CategorySet : r.n[c] # 0) =>
        \A i \in 1..Len(fetched_df) : HasCount(fetched_df[i])

-----------------------------------------------------------------------------
(* C10 *)

\* In a sequence of rows: the detail rows of a service are above the total row
\* of that service, every other row is above the 'Grand Total' row, and the
\* detail rows of one service are in ascending order of their labels, which
\* is the order of their times of day.
TotalsBelowDetails(rows) ==
    \A i, j \in 1..Len(rows) :
        /\ \A s \in {Lunch, Dinner} :
              (rows[i].Service = s /\ rows[j].Service = ServiceTotalName(s)) => i < j
        /\ (rows[i].Service # GrandTotal /\ rows[j].Service = GrandTotal) => i < j
        /\ (rows[i].Service \in {Lunch, Dinner} /\ rows[j].Service = rows[i].Service
               /\ i < j) =>
              /\ StrLT(rows[i].Interval, rows[j].Interval)
              /\ LabelMinutes(rows[i].Interval) < LabelMinutes(rows[j].Interval)

\* C10: in the assembled report and in the rendered table, every detail row of
\* a service is above the total row of that service, every detail row and
\* every service total row is above the 'Grand Total' row, and the detail rows
\* of one service are in ascending order of interval label; the table shows
\* every row of the assembled report.
C10_TotalsBelowDetails ==
    pc = "viewed" =>
        /\ TotalsBelowDetails(display_df)
        /\ TotalsBelowDetails(table_rows)
        /\ Len(table_rows) = Len(display_df)

\* a displayed report with two Lunch intervals and a Dinner interval
C10_Witness ==
    /\ pc = "viewed"
    /\ Len(RowsOf(display_df, Lunch)) >= 2
    /\ Len(RowsOf(display_df, Dinner)) >= 1
    /\ Len(RowsOf(table_rows, Lunch)) >= 2
    /\ Len(RowsOf(table_rows, ServiceTotalName(Dinner))) = 1

-----------------------------------------------------------------------------
(* C16 *)

\* the Qty (in 1/QtyScale units) that the lines of the bucket of row r whose
\* code is equal to a code of category c's list have together, in both frames
CategoryQty(r, c, w) ==
    QtyOf(new_items_df, {l \in BucketLines(new_items_df, r, w) :
                            \E code \in plu_mapping[c] : l.PLU = code})
    + QtyOf(new_modifiers_df, {l \in BucketLines(new_modifiers_df, r, w) :
                                  \E code \in plu_mapping[c] : l.PLU = code})

\* frame df with the Qty of every line whose code is in no list set to 0
ZeroUnclassified(df) ==
    LET Z(l) == IF Classified(l.PLU) THEN l ELSE [l EXCEPT !.Qty = 0]
    IN  [z \in {Z(l) : l \in DOMAIN df} |->
            BagCardinality(Rows(df, {l \in DOMAIN df : Z(l) = z}))]

\* C16: a line whose code is in no category's list, or that has no code, adds
\* its quantity to no count: the report is the report of the same lines with the
\* quantity of every such line set to 0, and a category none of whose codes is
\* equal to the code of a line of the bucket has count 0 in that bucket's row.
C16_UnclassifiedNotCounted ==
    pc = "generated" =>
        /\ gen_df = generate_report_data(ZeroUnclassified(new_items_df),
                                         ZeroUnclassified(new_modifiers_df), gen_type)
        /\ SingleDate =>
              \A i \in 1..Len(gen_df) : \A c \in CategorySet :
                  CategoryQty(gen_df[i], c, Width(gen_type)) = 0 => gen_df[i].n[c] = 0

\* a row whose bucket holds a line with code 23070, a line without a code and
\* a '1/2 Chix' line of quantity 1: the row counts 1 in all
C16_Witness ==
    /\ pc = "generated"
    /\ SingleDate
    /\ \E i \in 1..Len(gen_df) :
          /\ \E l \in BucketLines(new_items_df, gen_df[i], Width(gen_type)) :
                l.PLU = 23070 /\ l.Qty = QtyScale
          /\ \E l \in BucketLines(new_items_df, gen_df[i], Width(gen_type)) :
                l.PLU = NaN /\ l.Qty = QtyScale
          /\ gen_df[i].n["1/2 Chix"] = 1
          /\ gen_df[i].n["Corn"] = 0
          /\ gen_df[i].n["Total"] = 1

-----------------------------------------------------------------------------
(* C17 *)

\* a quantity of s units of 1/QtyScale, rounded half up to an integer
RoundHalfUp(s) == (2 * s + QtyScale) \div (2 * QtyScale)

\* C17: each category count of a row is the summed quantity of the category's
\* lines in the bucket, rounded half up (n + 1/2 becomes n + 1).
C17_RoundedHalfUp ==
    (pc = "generated" /\ SingleDate) =>
        \A i \in 1..Len(gen_df) : \A c \in CategorySet :
            gen_df[i].n[c] = RoundHalfUp(CategoryQty(gen_df[i], c, Width(gen_type)))

-----------------------------------------------------------------------------
(* C19 *)

\* the lines of frame df on date d at hour h, minute in [m, m + w)
LinesAt(df, d, h, m, w) ==
    {l \in Lines(df) : l.date = d /\ l.hour = h /\ l.minute >= m /\ l.minute < m + w}

\* the Qty (in 1/QtyScale units) of the lines of category c in the bucket of
\* date d that starts at h:m and is w minutes wide
QtyAt(d, h, m, w, c) ==
    QtyOf(new_items_df, {l \in LinesAt(new_items_df, d, h, m, w) :
                            l.PLU \in plu_mapping[c]})
    + QtyOf(new_modifiers_df, {l \in LinesAt(new_modifiers_df, d, h, m, w) :
                                  l.PLU \in plu_mapping[c]})

\* that bucket is zero: no category has a quantity of 1 or more in it, nor have
\* the categories together
ZeroBucket(d, h, m, w) ==
    LET qty == [c \in CategorySet |-> QtyAt(d, h, m, w, c)]
    IN  /\ \A c \in CategorySet : qty[c] < QtyScale
        /\ SumCols(qty, Categories) < QtyScale

\* no line is in a bucket that is not zero (a line before 06:00 is in no bucket)
NoNonZeroBucket(w) ==
    \A l \in AllLines :
        l.hour >= 6 => ZeroBucket(l.date, l.hour, (l.minute \div w) * w, w)

\* C19: generate_report_data returns the empty row set when it is given no
\* line at all, and when no line it is given is in a bucket that is not zero.
C19_EmptyInputEmptyReport ==
    (pc = "generated" /\ (AllLines = {} \/ NoNonZeroBucket(Width(gen_type)))) =>
        gen_df = << >>

\* an empty report for item lines and modifier lines none of which counts
C19_Witness ==
    /\ pc = "generated"
    /\ gen_df = << >>
    /\ NoNonZeroBucket(Width(gen_type))
    /\ \E l \in Lines(new_items_df) : l.hour >= 6 /\ l.Qty >= QtyScale
    /\ \E l \in Lines(new_modifiers_df) : l.hour >= 6 /\ Classified(l.PLU)

-----------------------------------------------------------------------------
(* C20 *)

\* 'HH:00', two digits
IsHourLabel(label) ==
    /\ Len(label) = 5
    /\ IsDigit(label[1]) /\ IsDigit(label[2])
    /\ SubSeq(label, 3, 5) = <<58, 48, 48>>

\* an hourly detail row: the label is 'HH:00' and the Service has no 'Total'
IsHourlyDetail(row) == IsHourLabel(row.Interval) /\ ~Contains(row.Service, TotalWord)

\* a row that is to pass through: the Service has 'Total' in it or the label
\* has no ':'
IsPassThrough(row) ==
    Contains(row.Service, TotalWord) \/ \A i \in 1..Len(row.Interval) : row.Interval[i] # 58

\* C20: convert_to_30min_intervals returns, for every hourly detail row
\* 'HH:00' of its argument, one row 'HH:00' and one row 'HH:30' of the same
\* Service, such that for every numeric column with value v the two values
\* add up to v, neither is negative, and the first less the second is 0 or 1;
\* a row whose Service contains 'Total' or whose Interval has no ':' is in the
\* result unchanged; the result has no other rows.
C20_HalvesOfEachHour ==
    pc = "converted" =>
        LET in == conv_df
            out == conv_result_df
            details == {i \in 1..Len(in) : IsHourlyDetail(in[i])}
        IN  /\ \A i \in details :
                  LET first == {j \in 1..Len(out) :
                                   /\ out[j].Service = in[i].Service
                                   /\ out[j].Interval = in[i].Interval}
                      second == {j \in 1..Len(out) :
                                   /\ out[j].Service = in[i].Service
                                   /\ out[j].Interval =
                                         SubSeq(in[i].Interval, 1, 3) \o <<51, 48>>}
                  IN  /\ Cardinality(first) = 1
                      /\ Cardinality(second) = 1
                      /\ \A j \in first : \A k \in second : \A col \in NumericSet :
                            /\ out[j].n[col] + out[k].n[col] = in[i].n[col]
                            /\ out[j].n[col] >= 0
                            /\ out[k].n[col] >= 0
                            /\ out[j].n[col] - out[k].n[col] \in {0, 1}
            /\ \A i \in 1..Len(in) :
                  IsPassThrough(in[i]) => \E j \in 1..Len(out) : out[j] = in[i]
            /\ Len(out) = Len(in) + Cardinality(details)

\* a frame with the row {Lunch, 13:00} holding the odd count 3 and the even
\* count 2, and a service total row, has been converted
C20_Witness ==
    /\ pc = "converted"
    /\ \E i \in 1..Len(conv_df) :
          /\ IsHourlyDetail(conv_df[i])
          /\ conv_df[i].n["1/2 Chix"] = 3
          /\ conv_df[i].n["Corn"] = 2
    /\ \E i \in 1..Len(conv_df) : conv_df[i].Service = ServiceTotalName(Dinner)
    /\ Len(conv_result_df) = 3
    /\ \E j \in 1..Len(conv_result_df) :
          conv_result_df[j].Interval = <<49, 51, 58, 51, 48>> /\ conv_result_df[j].n["1/2 Chix"] = 1

-----------------------------------------------------------------------------
(* C12 *)

\* C12: table new_sales_data never holds two rows with the same location,
\* order_date, service and interval_time.
C12_OneRowPerKey ==
    \A r1, r2 \in db :
        ( /\ r1.location = r2.location
          /\ r1.order_date = r2.order_date
          /\ r1.service = r2.service
          /\ r1.interval_time = r2.interval_time ) => r1 = r2

\* the rows of a table for one date and location
RowsFor(table, date, location) ==
    {r \in table : r.order_date = date /\ r.location = location}

\* a report was saved for a date and location that had a row of the same
\* service and interval with other counts, and one was saved that has two rows
\* of the same service and interval itself
C12_Witness ==
    /\ saves >= 2
    /\ \E old \in RowsFor(db_before, save_call.date, save_call.location) :
          \E i \in 1..Len(save_call.report_df) :
              /\ save_call.report_df[i].Service = old.service
              /\ save_call.report_df[i].Interval = old.interval_time
              /\ save_call.report_df[i].n # old.n
    /\ \E i, j \in 1..Len(save_call.report_df) :
          /\ i < j
          /\ save_call.report_df[i].Service = save_call.report_df[j].Service
          /\ save_call.report_df[i].Interval = save_call.report_df[j].Interval

-----------------------------------------------------------------------------
(* C13 *)

\* the rows a report stands for at a date and location: one for each Service
\* and Interval (the last, should the report have several)
StoredForm(date, location, report_df) ==
    {[location |-> location, order_date |-> date,
      service |-> report_df[i].Service, interval_time |-> report_df[i].Interval,
      n |-> report_df[i].n] :
        i \in {k \in 1..Len(report_df) :
                  \A j \in (k + 1)..Len(report_df) :
                      ~(report_df[j].Service = report_df[k].Service
                          /\ report_df[j].Interval = report_df[k].Interval)}}

\* C13: after save_report_data(date, location, R) with R not empty, the rows
\* stored for (date, location) are the rows of R and no others, and the rows
\* of every other date or location are those stored before the call.
C13_SaveReplacesOnePair ==
    (saves > 0 /\ save_call.report_df # << >>) =>
        /\ RowsFor(db, save_call.date, save_call.location)
              = StoredForm(save_call.date, save_call.location, save_call.report_df)
        /\ \A r \in db \cup db_before :
              (r.order_date # save_call.date \/ r.location # save_call.location) =>
                  (r \in db <=> r \in db_before)

\* a report was saved for a date and location that had a row the report does
\* not have, while another location had rows on the same date
C13_Witness ==
    /\ saves > 0
    /\ save_call.report_df # << >>
    /\ \E old \in RowsFor(db_before, save_call.date, save_call.location) : old \notin db
    /\ \E r \in db_before : r.order_date = save_call.date /\ r.location # save_call.location

-----------------------------------------------------------------------------
(* C14 *)

\* C14: when two save_report_data calls for the same date and location with
\* different reports have both returned, the rows stored for that date and
\* location are the rows of one of the two reports, not rows of both.
C14_LastWriterWins ==
    (\A c \in Conns : tx[c].pc = "committed") =>
        \E c \in Conns :
            RowsFor(db, tx[c].date, tx[c].location)
                = StoredForm(tx[c].date, tx[c].location, tx[c].report_df)

-----------------------------------------------------------------------------
(* C11: voided lines on every ingestion path *)

\* the rows of a file or of a response that are not marked void
NotVoided(data) == {r \in DOMAIN data : Lower(r.Void) # TrueText}

\* the item and modifier frames the ingested input gives without its voided
\* rows (voided orders for the Toast orders)
NonVoidFrames ==
    IF DOMAIN items_file # {}
      THEN <<ParseRows(items_file, NotVoided(items_file)),
             ParseRows(modifiers_file, NotVoided(modifiers_file))>>
    ELSE IF DOMAIN response_data # {}
      THEN LET f == ApiRows(response_data, NotVoided(response_data)) IN <<f, f>>
    ELSE LET f == ToastRows(orders_data, {o \in DOMAIN orders_data :
                                ~o.voided /\ o.openedDate # EmptyStr}, Kenner)
         IN  <<f, f>>

\* the hour of an interval label 'HH:00'
HourOf(label) == ParseInt(BeforeColon(label))

\* the rows of frame df in the hour of a stored row
NonVoidAt(df, rec) ==
    Rows(df, {l \in DOMAIN df : /\ l.date = rec.order_date
                                /\ l.Location = rec.location
                                /\ l.hour = HourOf(rec.interval_time)})

\* C11: once an upload or a pull has been saved, the counts of every stored
\* row are the counts of the lines of its date, location and hour that are not
\* voided; a voided line adds to no count, on the CSV path and on both API paths.
C11_VoidedNotCounted ==
    pc \in {"saved", "pulled"} =>
        \A rec \in db :
            rec.n = calculate_interval_counts(NonVoidAt(NonVoidFrames[1], rec),
                                              NonVoidAt(NonVoidFrames[2], rec))

-----------------------------------------------------------------------------
(* C18: one bad record of an upload *)

\* the rows of a file whose timestamp or quantity cannot be parsed
BadRows(file) == {r \in DOMAIN file : ~IsStamp(r.OrderDate) \/ ~IsNumber(r.Qty)}

\* the uploaded files hold exactly one bad record
OneBadRecord ==
    /\ \A r \in BadRows(items_file) : items_file[r] = 1
    /\ \A r \in BadRows(modifiers_file) : modifiers_file[r] = 1
    /\ Cardinality(BadRows(items_file)) + Cardinality(BadRows(modifiers_file)) = 1

\* the frame of the other records of a file: parsable and not voided
GoodFrame(file) ==
    ParseRows(file, {r \in DOMAIN file : Kept(r.Void) /\ r \notin BadRows(file)})

\* every line of frame part is in frame whole, at least as often
SubFrame(part, whole) ==
    \A l \in DOMAIN part : l \in DOMAIN whole /\ part[l] <= whole[l]

\* the dates generate_report_data goes through for an item frame
DatesOf(df) == {l.date : l \in DOMAIN df}

-----------------------------------------------------------------------------
(* C21: Total of the rows of a converted report *)

\* Total is the sum of the eight category counts in row r
TotalIsSum(r) == r.n["Total"] = SumCols(r.n, Categories)

\* C21: when Total is the sum of the eight category counts in every stored
\* hourly row of the displayed date and location, it is so in every detail row
\* get_report_data returns for them at '30 Minutes'.
C21_HalfHourTotalIsSum ==
    (pc = "viewed" /\ view_type = "30 Minutes"
        /\ \A r \in StoredRows : TotalIsSum(r)) =>
        \A i \in 1..Len(fetched_df) : TotalIsSum(fetched_df[i])

-----------------------------------------------------------------------------
(* C22: the stored hourly report read back at '30 Minutes' *)

\* the lines of frame df of the displayed date and location
DisplayedLines(df) ==
    Rows(df, {l \in DOMAIN df : l.date = selected_date /\ l.Location = selected_location})

\* the detail rows of a report that have a count: service, label and the
\* eight category counts of each
CountedRows(report_df) ==
    {<<report_df[i].Service, report_df[i].Interval,
       [c \in CategorySet |-> report_df[i].n[c]]>> :
        i \in {j \in 1..Len(report_df) : HasCount(report_df[j])}}

\* C22: for the lines of one date and location, the rows get_report_data
\* returns at '30 Minutes' from the stored '1 Hour' report have the labels and
\* the category counts of the rows generate_report_data makes of those lines at
\* '30 Minutes' (rows without any count set aside on both sides).
C22_ReadBackIsDirectHalfHour ==
    (pc = "viewed" /\ view_type = "30 Minutes"
        /\ selected_date # NoDate /\ selected_location # None) =>
        CountedRows(fetched_df)
            = CountedRows(generate_report_data(DisplayedLines(new_items_df),
                                               DisplayedLines(new_modifiers_df),
                                               "30 Minutes"))

-----------------------------------------------------------------------------
(* C23: the lines of a pull are counted once *)

\* the lines of frame df of the date, location and hour of line l
SameBucket(df, l) ==
    Rows(df, {x \in DOMAIN df : /\ x.date = l.date
                                /\ x.Location = l.Location
                                /\ x.hour = l.hour})

\* the stored rows of the date, location and hour of line l
StoredFor(l) ==
    {rec \in db : /\ rec.order_date = l.date
                  /\ rec.location = l.Location
                  /\ rec.interval_time = HourLabel(l.hour)}

\* C23: after a pull without voided records, every pulled line with a date,
\* a classified code and an hour of a service has one stored row for its date,
\* location and hour, and each category count of that row is the sum of the
\* quantities of the pulled lines of that bucket and category, each taken once.
C23_PulledLineCountedOnce ==
    (pc = "pulled" /\ NotVoided(response_data) = DOMAIN response_data) =>
        \A l \in DOMAIN new_items_df :
            (l.date # NaT /\ Classified(l.PLU) /\ l.hour >= 6) =>
                /\ Cardinality(StoredFor(l)) = 1
                /\ \A rec \in StoredFor(l) : \A c \in CategorySet :
                      rec.n[c] = PyInt(QtySumIsin(SameBucket(new_items_df, l),
                                                  plu_mapping[c]))

-----------------------------------------------------------------------------
(* C24: Toast orders in the report *)

\* the orders of the response that are not voided and have a date that is a time
CountedOrders ==
    {o \in DOMAIN orders_data : ~o.voided /\ IsStamp(o.openedDate)}

\* C24: after a pull of Toast orders, every order that is not voided and has
\* a date is one item record with quantity 1 and PLU 9999, and the table has a
\* row with a category count for the date, location and hour of the order.
C24_ToastOrderCounted ==
    (pc = "pulled" /\ DOMAIN orders_data # {}) =>
        \A o \in CountedOrders :
            LET l == ToastLine(o, Kenner)
            IN  /\ l \in DOMAIN new_items_df
                /\ new_items_df[l] = 1
                /\ l.Qty = 1 * QtyScale /\ l.PLU = 9999
                /\ l.hour >= 6 => \E rec \in StoredFor(l) : HasCount(rec)

-----------------------------------------------------------------------------
(* C25: a failing statement in save_report_data *)

\* C25: while the transaction of the call is in progress, and after a
\* statement of it has failed and the error was raised to the caller, the
\* table is as it was before the call.
C25_FailureRollsBack ==
    (InProgress(1) \/ tx[1].pc = "raised") => db = db_before

\* a failure after the DELETE removed rows of the pair and an INSERT was done
C25_Witness ==
    /\ tx[1].pc = "raised"
    /\ tx[1].next > 1
    /\ \E r \in db : r.order_date = tx[1].date /\ r.location = tx[1].location

-----------------------------------------------------------------------------
(* C27: re-processing a date and location *)

\* C27: after a date and location have been processed again with report R,
\* the rows stored for them are the rows of R, also when R is empty.  (The
\* upload and Recalculate call save_report_data only when R is not empty, and
\* save_report_data returns at once when it is: both leave the table as the
\* call modelled here does.)
C27_NoStaleRows ==
    saves > 0 =>
        RowsFor(db, save_call.date, save_call.location)
            = StoredForm(save_call.date, save_call.location, save_call.report_df)

-----------------------------------------------------------------------------
(* C28: modifier lines of a date without item lines *)

\* the rows of the generated report for the service and interval of line l
RowsAt(l) ==
    {i \in 1..Len(gen_df) :
        /\ gen_df[i].Service = ExpectedService(l.hour)
        /\ gen_df[i].Interval = ExpectedLabel(l.hour, l.minute, Width(gen_type))}

\* C28: in the report of the lines of one date, every modifier line with a
\* classified code, an hour from 6 to 23 and a whole quantity has a row for its
\* service and interval, and each category of its code counts at least its
\* quantity there, whether or not the date has item lines.
C28_ModifierCountedWithoutItems ==
    (pc = "generated" /\ SingleDate) =>
        \A l \in DOMAIN new_modifiers_df :
            (Classified(l.PLU) /\ l.hour >= 6 /\ l.Qty % QtyScale = 0) =>
                /\ RowsAt(l) # {}
                /\ \A i \in RowsAt(l) : \A c \in CategorySet :
                      l.PLU \in plu_mapping[c] =>
                          gen_df[i].n[c] >= PyInt(l.Qty * new_modifiers_df[l])

-----------------------------------------------------------------------------
(* C26: the retries of get_db_connection *)

\* the call is over
RetryOver == pc \in {"returned", "raised"}

\* at most three attempts; a returned connection is that of the first attempt
\* that succeeded; the error is raised after three failures only; the waits
\* are 1 second, then 2 seconds
RetryInv ==
    /\ attempt <= 3
    /\ pc = "returned" =>
          /\ conn # NoConn
          /\ opened[attempt].ok /\ conn = opened[attempt].conn
          /\ \A i \in 1..(attempt - 1) : ~opened[i].ok
    /\ pc = "raised" =>
          /\ attempt = 3
          /\ conn = NoConn
          /\ \A i \in 1..attempt : ~opened[i].ok
    /\ slept = SubSeq(<<1, 2>>, 1, Len(slept))
    /\ Len(slept) = IF pc = "connecting" THEN attempt ELSE attempt - 1

\* C26: get_db_connection makes at most 3 attempts, returns the connection of
\* the first attempt that succeeds, waits 1 second after the first failure and
\* 2 seconds after the second, raises after the third, and always ends by
\* returning a connection or raising.
C26_RetryThenReturnOrRaise == []RetryInv /\ <>RetryOver

\* the third attempt succeeded, after waits of 1 and 2 seconds
C26_Witness ==
    pc = "returned" /\ attempt = 3 /\ slept = <<1, 2>> /\ conn # NoConn

-----------------------------------------------------------------------------
(* C30: the two frames of the session state *)

\* both frames are None or neither is
BothOrNeither == IsNone(items_df) <=> IsNone(modifiers_df)

\* a run in which 'Recalculate Data' was pressed while the frames were None
\* and the uploaders empty
RecalculateOnNone ==
    pc' = "recalculate" /\ IsNone(items_df) /\ DOMAIN items_file' = {}

\* C30: in every state of a session, items_df is None exactly when
\* modifiers_df is None, and 'Recalculate Data' pressed while they are None
\* changes neither and saves nothing.
C30_BothOrNeither ==
    /\ []BothOrNeither
    /\ [][RecalculateOnNone =>
            (db' = db /\ IsNone(items_df') /\ IsNone(modifiers_df'))]_vars

\* 'Clear All Data' was pressed after an upload had set both frames, and the
\* uploaders were empty: both entries are None again
C30_Witness ==
    pc = "clear" /\ db # {} /\ IsNone(items_df) /\ IsNone(modifiers_df)

-----------------------------------------------------------------------------
(* C29: re-runs of the script while the uploaders hold the files *)

\* the file pairs load_data loads
LoadedPairs == {f \in FilePairs : ~load_data_raises(f[1], f[2])}

\* the session frames hold each line of file pair f once
HeldOnce(f) ==
    /\ items_df[1] = load_data(f[1])
    /\ modifiers_df[1] = load_data(f[2])

\* every stored row has the counts of the lines of file pair f
StoredCountsOf(f) ==
    \A rec \in db :
        rec.n = calculate_interval_counts(NonVoidAt(load_data(f[1]), rec),
                                          NonVoidAt(load_data(f[2]), rec))

\* C29: in a session in which one file pair was uploaded, whatever runs
\* followed, the session frames hold each uploaded line once and every stored
\* row, also one stored by 'Recalculate Data', has the counts of the uploaded
\* lines.
C29_UploadedOnce ==
    (uploads = 1 /\ ~IsNone(items_df)) =>
        \E f \in LoadedPairs : HeldOnce(f) /\ StoredCountsOf(f)

=============================================================================
